---- MODULE Spec2Model ----
(***************************************************************************)
(* A model of the olympus library glue: the change-event subscriber and    *)
(* publisher (olympus/events), and the transfer layer between schema       *)
(* models and ORM records (olympus/utils/pydantic_django.py).              *)
(***************************************************************************)
EXTENDS Integers, Sequences, FiniteSets, TLC

\* ------------------------------------------------------------------------
\* Bounds and value domains
\* ------------------------------------------------------------------------

\* Timestamps (updated_at, occurred_at) range over 0..MaxTime.
MaxTime == 2

\* Nesting depth of atomic blocks explored for the publisher.
MaxDepth == 2

\* Number of signals fired in one explored run of the publisher.
MaxSignals == 3

\* Python's None, for string-valued slots.
None == "None"

\* Primary keys of the subscribed orm_model.
Ids == {"r1", "r2"}

\* Tenants.
Tenants == {"t1", "t2"}

\* Values of the data field `status` carried by an event.
Statuses == {"live", "gone"}

\* DataChangeEvent.DataOperation
DataOperation == [CREATE |-> "C", UPDATE |-> "U", DELETE |-> "D", SNAPSHOT |-> "S"]

DataOps == {DataOperation.CREATE, DataOperation.UPDATE, DataOperation.DELETE, DataOperation.SNAPSHOT}

VARIABLES
    \* --- EventSubscription ---
    table,              \* the rows of orm_model: a set of records, id is the primary key
    is_tenant_bound,    \* cls.is_tenant_bound: orm_model has tenant_id
    has_updated_at,     \* orm_model has the field updated_at
    delete_on_status,   \* cls.delete_on_status (None: not configured)
    body,               \* the message being handled (NoBody when none)
    sub_pc,             \* "idle" | "handling" | "done"
    outcome,            \* how the last process() ended
    \* --- EventPublisher ---
    pub_is_tenant_bound,\* cls.is_tenant_bound of the publisher
    atomic_depth,       \* number of open atomic blocks of the connection
    run_on_commit,      \* the connection's pending on_commit hooks
    published,          \* the messages handed to the producer, in order
    fired,              \* per signal fired so far: where it fired and what became of its block
    \* --- transfer layer ---
    tr_pc,              \* "called" | "coroutine" | "returned" ("idle" before a call)
    tr_call,            \* the arguments of the call
    django_obj,         \* the in-memory record handed to the call
    db_obj,             \* the persisted row of that record
    db_rows,            \* the persisted related rows
    db_log,             \* the writes executed on the database, in order (rolled back ones too)
    tr_out,             \* what the call returned or raised
    \* --- request handling and REST client ---
    access_ctx,         \* the ContextVar `access` of security/jwt.py (<<>>: not set)
    tokens,             \* the REST client's token cache _tokens: auth kind -> token
    requested,          \* the HTTP requests the REST client has sent, in order
    endpoints           \* the Endpoint objects created so far (their path), oldest first

sub_vars == <<table, is_tenant_bound, has_updated_at, delete_on_status, body, sub_pc, outcome>>

pub_vars == <<pub_is_tenant_bound, atomic_depth, run_on_commit, published, fired>>

tr_vars == <<tr_pc, tr_call, django_obj, db_obj, db_rows, db_log, tr_out>>

lib_vars == <<access_ctx, tokens, requested, endpoints>>

vars == <<sub_vars, pub_vars, tr_vars, lib_vars>>

\* ------------------------------------------------------------------------
\* EventSubscription (olympus/events/subscribe.py)
\* ------------------------------------------------------------------------

\* A row of orm_model.  tenant_id is None for a model that is not tenant-bound;
\* updated_at is 0 and never read or written for a model without that field.
Rows ==
    [id : Ids, tenant_id : Tenants \cup {None}, updated_at : 0..MaxTime, status : Statuses]

\* The tenant_id an event carries: EventPublisher.get_body sets the instance's
\* tenant for a tenant-bound model and None otherwise.
EventTenants == IF is_tenant_bound THEN Tenants ELSE {None}

\* The JSON body of a message: a serialized DataChangeEvent.  `id` is the
\* top-level key "id" of the body (None when the body has no such key, which is
\* the form EventPublisher produces: DataChangeEvent has no field id; the
\* parser ignores an extra key); data is the payload parsed by event_schema.
Bodies ==
    [id : Ids \cup {None},
     data : [id : Ids, status : Statuses],
     data_op : DataOps,
     tenant_id : EventTenants,
     occurred_at : 0..MaxTime]

NoBody ==
    [id |-> None, data |-> [id |-> None, status |-> None], data_op |-> None,
     tenant_id |-> None, occurred_at |-> 0]

\* orm_obj (the property): orm_model.objects.get(Q(id=data.get('id')) [& Q(tenant_id=...)])
\* where data is the decoded body.  The set is empty when get raises DoesNotExist.
orm_obj(tbl, b) ==
    {r \in tbl : r.id = b.id /\ (is_tenant_bound => r.tenant_id = b.tenant_id)}

\* create_orm_obj: orm_model(id=data.id [, tenant_id=event.tenant_id]); the other
\* attributes are overwritten by op_create_or_update before the save.
create_orm_obj(b) ==
    [id |-> b.data.id,
     tenant_id |-> IF is_tenant_bound THEN b.tenant_id ELSE None,
     updated_at |-> 0,
     status |-> b.data.status]

\* Model.delete(): DELETE ... WHERE pk = obj.pk
Delete(tbl, obj) == {r \in tbl : r.id # obj.id}

\* Model.save(): UPDATE ... WHERE pk = obj.pk, and INSERT when no row was updated.
Save(tbl, obj) == {r \in tbl : r.id # obj.id} \cup {obj}

\* op_delete on the looked-up record.
op_delete(tbl, b) ==
    LET found == orm_obj(tbl, b) IN
    IF found = {}
    THEN [table |-> tbl, outcome |-> "delete_missing"]
    ELSE [table |-> Delete(tbl, CHOOSE r \in found : TRUE), outcome |-> "deleted"]

\* transfer_to_orm(self.data, self.orm_obj, action=SYNC) for the event schema
\* {id, status}, every field with its orm_field: set the attributes, then save.
transfer_data(tbl, obj, b) ==
    Save(tbl, [obj EXCEPT !.id = b.data.id, !.status = b.data.status])

\* A subscriber that forgets to stamp the record with the event's time.
set_updated_at_forgotten(obj, b) == obj

\* The assignment self.orm_obj.updated_at = occurred_at (persisted by the save
\* only when the model has the field).
set_updated_at(obj, b) ==
    IF has_updated_at THEN [obj EXCEPT !.updated_at = b.occurred_at] ELSE obj

\* The stale check of op_create_or_update; reading updated_at raises
\* AttributeError on a model without the field, which skips the check.
is_stale(obj, b) == has_updated_at /\ obj.updated_at > b.occurred_at

\* before_transfer raises Break
breaks(b) == delete_on_status # None /\ b.data.status = delete_on_status

op_create_or_update(tbl, b) ==
    LET found == orm_obj(tbl, b)
        is_new_orm_obj == found = {}
        obj == IF is_new_orm_obj THEN create_orm_obj(b) ELSE CHOOSE r \in found : TRUE
    IN  IF ~is_new_orm_obj /\ is_stale(obj, b)
        THEN [table |-> tbl, outcome |-> "discarded"]
        ELSE IF breaks(b)
        THEN [table |-> IF is_new_orm_obj THEN tbl ELSE Delete(tbl, obj), outcome |-> "break"]
        ELSE [table |-> transfer_data(tbl, set_updated_at(obj, b), b), outcome |-> "saved"]

\* EventSubscription.process
process(tbl, b) ==
    IF b.data_op = DataOperation.DELETE THEN op_delete(tbl, b) ELSE op_create_or_update(tbl, b)

\* The broker delivers a message to cls.handle.
Deliver ==
    /\ sub_pc = "idle"
    /\ \E b \in Bodies : body' = b
    /\ sub_pc' = "handling"
    /\ outcome' = "none"
    /\ UNCHANGED <<table, is_tenant_bound, has_updated_at, delete_on_status>>
    /\ UNCHANGED <<pub_vars, tr_vars, lib_vars>>

\* cls.handle: instance = cls(body); instance.process()
Handle ==
    /\ sub_pc = "handling"
    /\ LET res == process(table, body) IN
        /\ table' = res.table
        /\ outcome' = res.outcome
    /\ sub_pc' = "done"
    /\ UNCHANGED <<is_tenant_bound, has_updated_at, delete_on_status, body>>
    /\ UNCHANGED <<pub_vars, tr_vars, lib_vars>>

\* The handler returned; the consumer waits for the next message.
Ack ==
    /\ sub_pc = "done"
    /\ sub_pc' = "idle"
    /\ body' = NoBody
    /\ outcome' = "none"
    /\ UNCHANGED <<table, is_tenant_bound, has_updated_at, delete_on_status>>
    /\ UNCHANGED <<pub_vars, tr_vars, lib_vars>>

\* The publisher's state when no publisher is under study.
PubIdle ==
    /\ pub_is_tenant_bound = FALSE
    /\ atomic_depth = 0
    /\ run_on_commit = <<>>
    /\ published = <<>>
    /\ fired = <<>>

\* No access is set in the context, and the REST client has cached and sent nothing.
LibIdle ==
    /\ access_ctx = <<>>
    /\ tokens = <<>>
    /\ requested = <<>>
    /\ endpoints = <<>>

\* The transfer layer's state when no call is under study.
TrIdle ==
    /\ tr_pc = "idle"
    /\ tr_call = <<>>
    /\ django_obj = <<>>
    /\ db_obj = <<>>
    /\ db_rows = {}
    /\ db_log = <<>>
    /\ tr_out = <<>>

SubInit ==
    /\ PubIdle
    /\ TrIdle
    /\ LibIdle
    /\ table = {}
    /\ is_tenant_bound \in BOOLEAN
    /\ has_updated_at \in BOOLEAN
    /\ delete_on_status \in {None, "gone"}
    /\ body = NoBody
    /\ sub_pc = "idle"
    /\ outcome = "none"

\* The subscriber's state when no subscription is under study.
SubIdle ==
    /\ table = {}
    /\ is_tenant_bound = FALSE
    /\ has_updated_at = FALSE
    /\ delete_on_status = None
    /\ body = NoBody
    /\ sub_pc = "idle"
    /\ outcome = "none"

SubNext == Deliver \/ Handle \/ Ack

SpecSub == SubInit /\ [][SubNext]_vars

\* ------------------------------------------------------------------------
\* Claims about EventSubscription
\* ------------------------------------------------------------------------

\* The local record an event is about: the row with the id of the event's data
\* (and the event's tenant, for a tenant-bound model).
local_records(tbl, b) ==
    {r \in tbl : r.id = b.data.id /\ (is_tenant_bound => r.tenant_id = b.tenant_id)}

\* C1: after a DELETE event whose data carries id X (tenant T for a tenant-bound
\* model) has been processed, no local record with id X (and tenant T) exists.
C1_DeleteRemovesRecord ==
    (sub_pc = "done" /\ body.data_op = DataOperation.DELETE)
        => local_records(table, body) = {}

\* C2: over the create/update events processed for a record its updated_at never
\* decreases, and an event older than the stored record leaves the table unchanged.
C2_UpdatedAtNeverDecreases ==
    [][ /\ has_updated_at =>
            \A r \in table, s \in table' :
                (r.id = s.id /\ r.tenant_id = s.tenant_id) => s.updated_at >= r.updated_at
        /\ ( /\ has_updated_at
             /\ sub_pc = "handling"
             /\ body.data_op # DataOperation.DELETE
             /\ \E r \in local_records(table, body) : r.updated_at > body.occurred_at )
           => table' = table
      ]_vars

\* C3: after an event that is not a DELETE was processed up to the save (neither
\* discarded as stale nor stopped by before_transfer), the local record with the
\* id of the event's data (and the event's tenant) exists, holds the data's field
\* values, and its updated_at is the event's occurred_at.
C3_SavedRecordHoldsEventData ==
    (sub_pc = "done" /\ body.data_op # DataOperation.DELETE /\ outcome = "saved")
        => \E r \in local_records(table, body) :
            /\ r.status = body.data.status
            /\ has_updated_at => r.updated_at = body.occurred_at

\* C3's case: an update of a record that existed before, saved with a newer time.
C3_Witness ==
    /\ sub_pc = "done"
    /\ outcome = "saved"
    /\ body.data_op = DataOperation.UPDATE
    /\ body.id = body.data.id
    /\ has_updated_at
    /\ body.occurred_at > 0
    /\ Cardinality(table) = 2

\* C19: handling an event of tenant T for a tenant-bound model leaves every
\* local record of another tenant as it was, whatever its id.
C19_OtherTenantsRecordsUntouched ==
    [][(is_tenant_bound /\ sub_pc = "handling" /\ sub_pc' = "done")
        => \A r \in table : r.tenant_id # body.tenant_id => r \in table']_vars

\* ------------------------------------------------------------------------
\* EventPublisher / DataChangePublisher (olympus/events/publish.py) and
\* on_transaction_complete (olympus/utils/django.py)
\* ------------------------------------------------------------------------

\* cls.version and cls.type (the defaults of __init_subclass__)
version == "v1"

type == "data"

\* The signals DataChangePublisher.register connects, with the `created` kwarg
\* post_save carries.
Signals ==
    {[signal |-> "post_save", created |-> TRUE],
     [signal |-> "post_save", created |-> FALSE],
     [signal |-> "post_delete", created |-> FALSE]}

\* The instances of the publisher's orm_model that signals are sent for.
Instances ==
    [id : {"r1"}, tenant_id : IF pub_is_tenant_bound THEN Tenants ELSE {None}]

\* str.join
RECURSIVE Join(_, _)
Join(keys, sep) ==
    IF Len(keys) = 0 THEN ""
    ELSE IF Len(keys) = 1 THEN keys[1]
    ELSE keys[1] \o sep \o Join(Tail(keys), sep)

\* str.upper, on the action names and the HTTP method names
upper(a) ==
    CASE a = "create" -> "CREATE"
      [] a = "update" -> "UPDATE"
      [] a = "delete" -> "DELETE"
      [] a = "get" -> "GET"
      [] a = "post" -> "POST"
      [] a = "head" -> "HEAD"
      [] a = "put" -> "PUT"
      [] a = "patch" -> "PATCH"
      [] OTHER -> a

\* A publisher whose action is the class default 'update' whatever the signal.
action_default(self) == "update"

\* DataChangePublisher.action
action(self) ==
    IF self.signal = "post_save"
    THEN (IF self.created THEN "create" ELSE "update")
    ELSE IF self.signal = "post_delete" THEN "delete"
    ELSE None

\* DataChangePublisher.get_data_op
get_data_op(self) == DataOperation[upper(action(self))]

\* EventPublisher.get_keys
get_keys(self) == <<version, type, action(self)>>

\* EventPublisher.routing_key
routing_key(self) ==
    Join(IF pub_is_tenant_bound THEN Append(get_keys(self), self.instance.tenant_id)
                                ELSE get_keys(self), ".")

\* EventPublisher.get_body: the DataChangeEvent (data reduced to the record's id)
get_body(self) ==
    [data |-> [id |-> self.instance.id],
     data_op |-> get_data_op(self),
     tenant_id |-> IF pub_is_tenant_bound THEN self.instance.tenant_id ELSE None]

\* EventPublisher.process: what Producer.publish is called with, together with
\* the publisher instance (sender's signal, kwargs, instance) it was made from.
publish(self) ==
    [self |-> self, routing_key |-> routing_key(self), body |-> get_body(self)]

\* The messages produced by running the hooks of a committing transaction.
RECURSIVE run_hooks(_)
run_hooks(hooks) ==
    IF hooks = <<>> THEN <<>> ELSE <<publish(Head(hooks).call)>> \o run_hooks(Tail(hooks))

\* Filter a sequence of hooks / fired signals.
RECURSIVE keep_below(_, _)
keep_below(hooks, level) ==
    IF hooks = <<>> THEN <<>>
    ELSE (IF Head(hooks).level < level THEN <<Head(hooks)>> ELSE <<>>)
            \o keep_below(Tail(hooks), level)

\* on_transaction_complete deferring nothing: the call is made at once.
in_atomic_block_ignored == FALSE

\* transaction.get_connection().in_atomic_block
in_atomic_block == atomic_depth > 0

\* What became of the signals fired in the block at `level` when it is left:
\* rolled back they are lost, committed they belong to the enclosing block, and
\* with the outermost block to the committed transaction.
leave(f, level, committed) ==
    IF f.fate # "pending" \/ f.level < level THEN f
    ELSE IF ~committed THEN [f EXCEPT !.fate = "rolled_back"]
    ELSE IF level = 1 THEN [f EXCEPT !.fate = "committed"]
    ELSE [f EXCEPT !.level = level - 1]

\* A signal reaches EventPublisher.handle, i.e. the wrapper of
\* on_transaction_complete(): from a running event loop it raises
\* AssertionError; outside an atomic block it calls at once; inside it
\* registers the call with transaction.on_commit.
FireSignal ==
    /\ Len(fired) < MaxSignals
    /\ \E sig \in Signals, instance \in Instances, is_async \in BOOLEAN :
        LET self == [sid |-> Len(fired) + 1, signal |-> sig.signal,
                     created |-> sig.created, instance |-> instance]
        IN  /\ fired' = Append(fired, [level |-> atomic_depth, is_async |-> is_async,
                                       fate |-> IF atomic_depth = 0 THEN "outside" ELSE "pending"])
            /\ IF is_async
               THEN UNCHANGED <<run_on_commit, published>>
               ELSE IF ~in_atomic_block
               THEN /\ published' = Append(published, publish(self))
                    /\ UNCHANGED run_on_commit
               ELSE /\ run_on_commit' = Append(run_on_commit, [level |-> atomic_depth, call |-> self])
                    /\ UNCHANGED published
    /\ UNCHANGED <<pub_is_tenant_bound, atomic_depth>>
    /\ UNCHANGED <<sub_vars, tr_vars, lib_vars>>

\* with atomic(): entered
AtomicEnter ==
    /\ atomic_depth < MaxDepth
    /\ atomic_depth' = atomic_depth + 1
    /\ UNCHANGED <<pub_is_tenant_bound, run_on_commit, published, fired>>
    /\ UNCHANGED <<sub_vars, tr_vars, lib_vars>>

\* with atomic(): left normally.  An inner block releases its savepoint and its
\* hooks stay registered; the outermost block commits and runs the hooks.
AtomicCommit ==
    /\ atomic_depth > 0
    /\ atomic_depth' = atomic_depth - 1
    /\ IF atomic_depth = 1
       THEN /\ published' = published \o run_hooks(run_on_commit)
            /\ run_on_commit' = <<>>
       ELSE /\ run_on_commit' =
                [i \in 1..Len(run_on_commit) |->
                    IF run_on_commit[i].level < atomic_depth THEN run_on_commit[i]
                    ELSE [run_on_commit[i] EXCEPT !.level = atomic_depth - 1]]
            /\ UNCHANGED published
    /\ fired' = [i \in 1..Len(fired) |-> leave(fired[i], atomic_depth, TRUE)]
    /\ UNCHANGED pub_is_tenant_bound
    /\ UNCHANGED <<sub_vars, tr_vars, lib_vars>>

\* with atomic(): left by an exception.  The block is rolled back and the hooks
\* registered inside it are dropped.
AtomicRollback ==
    /\ atomic_depth > 0
    /\ atomic_depth' = atomic_depth - 1
    /\ run_on_commit' = keep_below(run_on_commit, atomic_depth)
    /\ fired' = [i \in 1..Len(fired) |-> leave(fired[i], atomic_depth, FALSE)]
    /\ UNCHANGED <<pub_is_tenant_bound, published>>
    /\ UNCHANGED <<sub_vars, tr_vars, lib_vars>>

PubInit ==
    /\ SubIdle
    /\ TrIdle
    /\ LibIdle
    /\ pub_is_tenant_bound \in BOOLEAN
    /\ atomic_depth = 0
    /\ run_on_commit = <<>>
    /\ published = <<>>
    /\ fired = <<>>

PubNext == FireSignal \/ AtomicEnter \/ AtomicCommit \/ AtomicRollback

SpecPub == PubInit /\ [][PubNext]_vars

\* ------------------------------------------------------------------------
\* Claims about EventPublisher
\* ------------------------------------------------------------------------

\* The signals (by number) whose message was handed to the producer.
published_sids == {published[j].self.sid : j \in 1..Len(published)}

\* C4 as stated: the message of a signal has been produced exactly if the signal
\* fired outside any atomic block (then within the handler) or the transaction it
\* fired in has committed; never while that transaction is open or if it rolled back.
C4_PublishedIffOutsideOrCommitted ==
    \A i \in 1..Len(fired) :
        (i \in published_sids) <=> (fired[i].fate \in {"outside", "committed"})

\* C4 amended: the above holds for the signals handled from a synchronous
\* context; the message of a signal handled from a running event loop is never
\* produced (the handler raises AssertionError).
C4_PublishedIffSyncAndOutsideOrCommitted ==
    \A i \in 1..Len(fired) :
        (i \in published_sids) <=>
            (~fired[i].is_async /\ fired[i].fate \in {"outside", "committed"})

\* C4's cases: one signal published on commit, one lost with a rollback, one
\* produced at once outside any block.
C4_Witness ==
    /\ \E i \in 1..Len(fired) : fired[i].fate = "committed" /\ i \in published_sids
    /\ \E i \in 1..Len(fired) : fired[i].fate = "rolled_back" /\ ~fired[i].is_async
    /\ \E i \in 1..Len(fired) : fired[i].fate = "outside" /\ i \in published_sids

\* C5: every published event has the routing key version.type.action, followed
\* by .tenant_id exactly for a tenant-bound model, where action is create for
\* post_save with created, update for any other post_save and delete for
\* post_delete; data_op is the matching value and tenant_id the instance's tenant
\* (None when the model is not tenant-bound).
C5_RoutingKeyAndDataOp ==
    \A j \in 1..Len(published) :
        LET m == published[j]
            s == m.self
            a == IF s.signal = "post_delete" THEN "delete"
                 ELSE IF s.created THEN "create" ELSE "update"
            op == IF s.signal = "post_delete" THEN "D"
                  ELSE IF s.created THEN "C" ELSE "U"
        IN  /\ m.routing_key =
                    "v1.data." \o a \o
                        (IF pub_is_tenant_bound THEN "." \o s.instance.tenant_id ELSE "")
            /\ m.body.data_op = op
            /\ m.body.tenant_id = (IF pub_is_tenant_bound THEN s.instance.tenant_id ELSE None)

\* C5's case: a tenant-bound publisher has published a create and a delete.
C5_Witness ==
    /\ pub_is_tenant_bound
    /\ \E j \in 1..Len(published) : published[j].self.signal = "post_delete"
    /\ \E j \in 1..Len(published) :
            published[j].self.signal = "post_save" /\ published[j].self.created

\* ------------------------------------------------------------------------
\* The transfer layer (olympus/utils/pydantic_django.py): schema models
\* ------------------------------------------------------------------------

\* TransferAction (None: transfer_to_orm called without an action)
TransferAction == [CREATE |-> "CREATE", SYNC |-> "SYNC", NO_SUBOBJECTS |-> "NO_SUBOBJECTS"]

TransferActions ==
    {None, TransferAction.CREATE, TransferAction.SYNC, TransferAction.NO_SUBOBJECTS}

\* A field of a schema model, as transfer_to_orm reads it from field.field_info.extra,
\* field.shape and field.type_:
\*   kind "method"  orm_method is set (attr: the attribute its setter writes)
\*        "scalar"  SHAPE_SINGLETON with orm_field on a column (attr: its attname)
\*        "json"    SHAPE_SINGLETON, dict-valued, orm_field on a JSONField
\*        "nested"  SHAPE_SINGLETON of a schema model (type) without orm_field
\*        "m2o"     SHAPE_LIST of a schema model (type), orm_field a ReverseManyToOneDescriptor
\*        "m2m"     SHAPE_LIST of a schema model (type), orm_field a ManyToManyDescriptor
\*   scopes, is_critical: the extras read by check_field_access and transfer_from_orm;
\*            a scope string is written as the sequence of its dot-separated parts
\*   required, allow_none: field.required and field.allow_none
\*   default: field_info.default (None when there is none); for a nested field
\*            "instance" when the default is a model instance
\*   sync_matching: for "m2o", whether the extra sync_matching is declared
Field(name, kind, attr, type_, scopes, is_critical, default, sync_matching) ==
    [name |-> name, kind |-> kind, attr |-> attr, type |-> type_, scopes |-> scopes,
     is_critical |-> is_critical, default |-> default, sync_matching |-> sync_matching,
     required |-> FALSE, allow_none |-> TRUE]

\* A field declared without a default and not Optional.
Required(f) == [f EXCEPT !.required = TRUE, !.allow_none = FALSE]

\* The schema models under study, pydantic_cls.__fields__ in declaration order.
\*   Customer: a record with scalar columns, a secret written by a setter, two
\*   nested models on the same record, a JSON column and a one-to-many list.
\*   Order: a record with a one-to-many list matched by id, one matched by
\*   sync_matching (on key), and a many-to-many list.
\*   Item, TagRef: the elements of these lists; an id of 0 stands for no id.
\*   Account: a record read under access scopes, with a required title, fields
\*   with read and update scopes, a secret read by a getter, a JSON column, a
\*   nested Profile (whose nick is required) and a one-to-many list.
\*   Sheet: a record with fields declared with orm_field=None (kind "skipped"),
\*   one of them (Leaf.extra) of a schema model type, and a field declared
\*   with neither orm_field nor orm_method (kind "unmapped", Stub.orphan).
Schemas ==
    [Customer |-> <<
        Field("name", "scalar", "name", None, <<<<"crm", "customers", "update", "any">>>>, FALSE, None, FALSE),
        Field("pin", "method", "pin", None, <<>>, TRUE, None, FALSE),
        Field("address", "nested", None, "Address", <<>>, FALSE, None, FALSE),
        Field("contact", "nested", None, "Contact", <<>>, FALSE, "instance", FALSE),
        Field("meta", "json", "meta", None, <<<<"crm", "customers", "update", "meta">>>>, FALSE, None, FALSE),
        Field("items", "m2o", "items", "Item", <<>>, FALSE, None, FALSE) >>,
     Address |-> <<
        Field("city", "scalar", "city", None, <<>>, FALSE, "nowhere", FALSE),
        Field("zip", "scalar", "zip", None, <<<<"crm", "customers", "update", "own">>, <<"crm", "customers", "update", "any">>>>, FALSE, None, FALSE) >>,
     Contact |-> <<
        Field("phone", "scalar", "phone", None, <<>>, FALSE, None, FALSE) >>,
     Item |-> <<
        Field("id", "scalar", "id", None, <<>>, FALSE, 0, FALSE),
        Field("key", "scalar", "key", None, <<>>, FALSE, None, FALSE),
        Field("qty", "scalar", "qty", None, <<<<"crm", "items", "update", "any">>>>, FALSE, None, FALSE) >>,
     TagRef |-> <<
        Field("id", "scalar", "target", None, <<>>, FALSE, 0, FALSE),
        Field("qty", "scalar", "qty", None, <<>>, FALSE, None, FALSE) >>,
     Account |-> <<
        Required(Field("title", "scalar", "title", None, <<>>, FALSE, None, FALSE)),
        Field("email", "scalar", "email", None,
              <<<<"crm", "accounts", "read", "own">>, <<"crm", "accounts", "read", "any">>,
                <<"crm", "accounts", "update", "any">>>>, FALSE, None, FALSE),
        Field("note", "scalar", "note", None, <<<<"crm", "accounts", "update", "any">>>>, FALSE, None, FALSE),
        Field("secret", "method", "secret", None, <<<<"crm", "accounts", "read", "any">>>>, FALSE, None, FALSE),
        Field("meta", "json", "meta", None, <<<<"crm", "accounts", "read">>>>, FALSE, None, FALSE),
        Field("profile", "nested", None, "Profile", <<>>, FALSE, None, FALSE),
        Field("items", "m2o", "items", "Item", <<>>, FALSE, None, FALSE) >>,
     Profile |-> <<
        Required(Field("nick", "scalar", "nick", None, <<<<"crm", "accounts", "read", "own">>>>, FALSE, None, FALSE)),
        Field("bio", "scalar", "bio", None, <<>>, FALSE, None, FALSE) >>,
     Order |-> <<
        Field("items", "m2o", "items", "Item", <<>>, FALSE, None, FALSE),
        Field("parts", "m2o", "parts", "Item", <<>>, FALSE, None, TRUE),
        Field("tags", "m2m", "tags", "TagRef", <<>>, FALSE, None, FALSE) >>,
     Sheet |-> <<
        Field("title", "scalar", "title", None, <<>>, FALSE, None, FALSE),
        Field("leaf", "nested", None, "Leaf", <<>>, FALSE, None, FALSE),
        Field("hint", "skipped", None, None, <<>>, FALSE, None, FALSE),
        Field("stub", "nested", None, "Stub", <<>>, FALSE, None, FALSE) >>,
     Leaf |-> <<
        Field("text", "scalar", "text", None, <<>>, FALSE, None, FALSE),
        Field("hint", "skipped", None, None, <<>>, FALSE, None, FALSE),
        Field("extra", "skipped", None, "Extra", <<>>, FALSE, None, FALSE) >>,
     Extra |-> <<
        Field("flag", "scalar", "flag", None, <<>>, FALSE, "on", FALSE) >>,
     Stub |-> <<
        Field("label", "scalar", "label", None, <<>>, FALSE, None, FALSE),
        Field("orphan", "unmapped", None, None, <<>>, FALSE, None, FALSE) >>]

\* field names of a schema model, in order
field_names(cls) == [i \in 1..Len(Schemas[cls]) |-> Schemas[cls][i].name]

\* A schema model instance: its class, __fields_set__ and its field values.  A
\* nested value is an instance or NoneObj, a list value a sequence of instances.
NoneObj == [cls |-> None, set |-> {}, val |-> <<>>]

\* The default instance a nested field declares (Contact(phone='none given')).
default_instance(cls) ==
    [cls |-> cls, set |-> {"phone"}, val |-> [phone |-> "none given"]]

\* The value pydantic gives a field that was not provided.
default_value(f) ==
    CASE f.kind = "nested" -> IF f.default = "instance" THEN default_instance(f.type) ELSE NoneObj
      [] f.kind \in {"m2o", "m2m"} -> <<>>
      [] f.kind = "skipped" /\ f.type # None -> NoneObj
      [] OTHER -> f.default

\* pydantic_cls(**provided): the provided fields are set, the others take their default.
Construct(cls, provided) ==
    [cls |-> cls,
     set |-> DOMAIN provided,
     val |-> [n \in {Schemas[cls][i].name : i \in 1..Len(Schemas[cls])} |->
                IF n \in DOMAIN provided THEN provided[n]
                ELSE default_value(CHOOSE f \in {Schemas[cls][i] : i \in 1..Len(Schemas[cls])} : f.name = n)]]

\* obj.dict(exclude_unset=True).keys(): the set fields in declaration order
RECURSIVE set_keys(_, _)
set_keys(obj, i) ==
    IF i > Len(Schemas[obj.cls]) THEN <<>>
    ELSE (IF Schemas[obj.cls][i].name \in obj.set THEN <<Schemas[obj.cls][i]>> ELSE <<>>)
            \o set_keys(obj, i + 1)

\* ------------------------------------------------------------------------
\* check_field_access
\* ------------------------------------------------------------------------

\* An access: whether one is given, and its token's audiences and crt.
NoAccess == [given |-> FALSE, aud |-> {}, crt |-> FALSE]

\* AccessToken.has_audience: the first of the audiences the token holds, else None
RECURSIVE has_audience(_, _)
has_audience(token, audiences) ==
    IF audiences = <<>> THEN None
    ELSE IF Head(audiences) \in token.aud THEN Head(audiences)
    ELSE has_audience(token, Tail(audiences))

\* isinstance(value, dict) for a value of input.dict(exclude_unset=True): a nested
\* model instance and a dict of a dict-valued field are dicts there, None, a
\* scalar and a list are not.
is_dict(f, value) ==
    \/ f.kind = "nested" /\ value # NoneObj
    \/ f.kind = "json" /\ value # None

\* check(model, input, access) over the items fs of input, for a schema model
\* instance: "" when it returns, else the code of the AccessError it raises.
RECURSIVE check(_, _, _)
check(model, fs, access) ==
    IF fs = <<>> THEN ""
    ELSE LET f == Head(fs)
             value == model.val[f.name]
             \* the recursive call; for a dict-valued field getattr(model, key)
             \* is a dict: an empty one has no items, and for any other
             \* `key in model.__fields__` raises AttributeError, caught by the caller
             inner == IF f.kind = "nested"
                      THEN check(value, set_keys(value, 1), access)
                      ELSE ""
             here == IF is_dict(f, value) THEN inner
                     ELSE IF f.scopes # <<>>
                          THEN (IF has_audience(access, f.scopes) = None
                                THEN "access_error.field" ELSE "")
                     ELSE IF f.is_critical
                          THEN (IF ~access.crt THEN "access_error.field_is_critical" ELSE "")
                     ELSE ""
         IN  IF here # "" THEN here ELSE check(model, Tail(fs), access)

check_field_access(input, access) == check(input, set_keys(input, 1), access)

\* ------------------------------------------------------------------------
\* transfer_to_orm
\* ------------------------------------------------------------------------

\* A related record: a row of the model behind the list field `rel` of the
\* record `parent`.  id is its primary key (0 before the first save), target the
\* other side of a many-to-many through row.
Row(rel, parent, id, target, key, qty) ==
    [rel |-> rel, parent |-> parent, id |-> id, target |-> target, key |-> key, qty |-> qty]

\* The working state of one transfer_to_orm call: the record being written
\* (dj), the attributes set and the orm_method fields called so far, the lists
\* subobjects and existing_objects, the set existing_object_ids of the list
\* field being walked, and the exception raised ("" while none).
Transfer(dj, written, called) ==
    [dj |-> dj, written |-> written, called |-> called, subobjects |-> <<>>,
     existing_objects |-> {}, existing_object_ids |-> {}, error |-> ""]

Raise(st, e) == [st EXCEPT !.error = e]

\* F applied to the value of x, which is computed once however often F uses it.
With(x, F(_)) == CHOOSE y \in {F(v) : v \in {x}} : TRUE

\* setattr(django_obj, attname, value)
setattr(st, attr, value) ==
    [st EXCEPT !.dj = [@ EXCEPT ![attr] = value], !.written = @ \cup {attr}]

\* value.json() / json.dumps(value), of a non-empty dict
dumps(value) == "json:" \o value

\* truthiness of a dict value of a JSON field: None and {} are false
truthy(value) == value \notin {None, "{}"}

\* populate_default(pydantic_cls, django_obj), from field i on
RECURSIVE populate_default(_, _, _)
populate_default(cls, i, st) ==
    IF st.error # "" \/ i > Len(Schemas[cls]) THEN st
    ELSE LET f == Schemas[cls][i] IN
         IF f.kind = "nested" \/ (f.kind = "skipped" /\ f.type # None)
         THEN With(populate_default(f.type, 1, st),
                   LAMBDA next : populate_default(cls, i + 1, next))
         ELSE IF f.kind = "skipped"
         THEN populate_default(cls, i + 1, st)
         ELSE IF f.kind \in {"method", "unmapped"}
         THEN Raise(st, "AssertionError")
         ELSE With(setattr(st, f.attr, f.default),
                   LAMBDA next : populate_default(cls, i + 1, next))

\* related_model.objects.filter(**obj_fields): the related rows of a record
related(rows, rel, parent) == {r \in rows : r.rel = rel /\ r.parent = parent}

\* get_subobj() of the ReverseManyToOneDescriptor branch: the record an element
\* is transferred to, or the exception raised.
get_subobj_m2o(f, val, dj, rows, act) ==
    LET created == [obj |-> Row(f.attr, dj.id, val.val.id, 0, None, None), error |-> ""]
        force_create == act = TransferAction.SYNC /\ val.val.id = 0 /\ ~f.sync_matching
    IN  IF force_create \/ act = TransferAction.CREATE THEN created
        ELSE IF act = TransferAction.SYNC
        THEN LET found == IF val.val.id # 0
                          THEN {r \in related(rows, f.attr, dj.id) : r.id = val.val.id}
                          ELSE {r \in related(rows, f.attr, dj.id) : r.key = val.val.key}
             IN  IF found = {} THEN created
                 ELSE IF Cardinality(found) > 1
                 THEN [obj |-> created.obj, error |-> "MultipleObjectsReturned"]
                 ELSE [obj |-> CHOOSE r \in found : TRUE, error |-> ""]
        ELSE [obj |-> created.obj, error |-> "NotImplementedError"]

\* get_subobj() of the ManyToManyDescriptor branch (rows of the through model)
get_subobj_m2m(f, val, dj, rows, act) ==
    LET created == [obj |-> Row(f.attr, dj.id, 0, val.val.id, None, None), error |-> ""]
    IN  IF val.val.id = 0 THEN [obj |-> created.obj, error |-> "NotImplementedError"]
        ELSE IF act = TransferAction.CREATE THEN created
        ELSE IF act = TransferAction.SYNC
        THEN LET found == {r \in related(rows, f.attr, dj.id) : r.target = val.val.id}
             IN  IF found = {} THEN created
                 ELSE IF Cardinality(found) > 1
                 THEN [obj |-> created.obj, error |-> "MultipleObjectsReturned"]
                 ELSE [obj |-> CHOOSE r \in found : TRUE, error |-> ""]
        ELSE [obj |-> created.obj, error |-> "NotImplementedError"]

get_subobj(f, val, dj, rows, act) ==
    IF f.kind = "m2m" THEN get_subobj_m2m(f, val, dj, rows, act)
    ELSE get_subobj_m2o(f, val, dj, rows, act)

\* `if not value: continue` of the SHAPE_LIST branch
skips_list(value) == value = <<>>

RECURSIVE transfer(_, _, _, _)
RECURSIVE transfer_fields(_, _, _, _, _)
RECURSIVE transfer_list(_, _, _, _, _)

\* The loop `for val in value` of a list field f, on the remaining elements.
transfer_list(f, vals, st, rows, opts) ==
    IF st.error # "" \/ vals = <<>> THEN st
    ELSE LET val == Head(vals)
             \* sub_obj = get_subobj(); the nested call on it; the next element
             element(got) ==
                IF got.error # "" THEN Raise(st, got.error)
                ELSE With(transfer(val, Transfer(got.obj, {}, {}), rows, opts),
                          LAMBDA sub :
                            With([st EXCEPT
                                    !.existing_object_ids = @ \ {got.obj.id},
                                    !.subobjects = @ \o <<sub.dj>> \o sub.subobjects,
                                    !.existing_objects = @ \cup sub.existing_objects,
                                    !.error = sub.error],
                                 LAMBDA next : transfer_list(f, Tail(vals), next, rows, opts)))
         IN  With(get_subobj(f, val, st.dj, rows, opts.action), element)

\* The loop over pydantic_obj.__fields__, from field i on.
transfer_fields(pydantic_obj, i, st, rows, opts) ==
    IF st.error # "" \/ i > Len(Schemas[pydantic_obj.cls]) THEN st
    ELSE LET f == Schemas[pydantic_obj.cls][i]
             value == pydantic_obj.val[f.name]
             unset == opts.exclude_unset /\ f.name \notin pydantic_obj.set
             done ==
                CASE f.kind = "method" ->
                        IF unset THEN st
                        ELSE [setattr(st, f.attr, value) EXCEPT !.called = @ \cup {f.name}]
                  [] f.kind = "skipped" -> st
                  [] f.kind = "unmapped" -> Raise(st, "AttributeError")
                  [] f.kind = "nested" ->
                        IF value.cls = None
                        THEN (IF unset THEN st ELSE populate_default(f.type, 1, st))
                        ELSE With(transfer(value, Transfer(st.dj, st.written, st.called), rows, opts),
                                  LAMBDA sub :
                                    [st EXCEPT !.dj = sub.dj, !.written = sub.written,
                                               !.called = sub.called,
                                               !.subobjects = @ \o sub.subobjects,
                                               !.existing_objects = @ \cup sub.existing_objects,
                                               !.error = sub.error])
                  [] f.kind = "scalar" ->
                        IF unset THEN st ELSE setattr(st, f.attr, value)
                  [] f.kind = "json" ->
                        IF unset THEN st
                        ELSE setattr(st, f.attr, IF truthy(value) THEN dumps(value) ELSE value)
                  [] f.kind \in {"m2o", "m2m"} ->
                        IF skips_list(value) THEN st
                        ELSE LET ids == IF opts.action = TransferAction.SYNC
                                        THEN {r.id : r \in related(rows, f.attr, st.dj.id)}
                                        ELSE {}
                             IN  With(transfer_list(f, value, [st EXCEPT !.existing_object_ids = ids],
                                                    rows, opts),
                                      LAMBDA walked :
                                        IF walked.error # "" THEN walked
                                        ELSE [walked EXCEPT !.existing_objects =
                                                @ \cup {r \in rows : r.rel = f.attr
                                                            /\ r.id \in walked.existing_object_ids}])
         IN  With(done, LAMBDA next : transfer_fields(pydantic_obj, i + 1, next, rows, opts))

\* transfer_to_orm up to `if _just_return_objs: return subobjects, existing_objects`
\* (lines 90-294): the access check, the loop over the fields, the assertion.
transfer(pydantic_obj, st, rows, opts) ==
    LET denied == IF opts.access.given THEN check_field_access(pydantic_obj, opts.access) ELSE ""
    IN  IF denied # "" THEN Raise(st, denied)
        ELSE With(transfer_fields(pydantic_obj, 1, st, rows, opts),
                  LAMBDA out :
                    IF out.error = "" /\ out.subobjects # <<>> /\ opts.action = None
                    THEN Raise(out, "AssertionError")
                    ELSE out)

\* obj.save() of a related record: an INSERT under a fresh primary key for a
\* record without one, else an UPDATE of the row with its key (INSERT when
\* there is none).
save_row(rows, obj) ==
    IF obj.id = 0
    THEN LET used == {r.id : r \in {x \in rows : x.rel = obj.rel}}
             pk == IF used = {} THEN 1 ELSE 1 + CHOOSE m \in used : \A u \in used : u <= m
         IN  rows \cup {[obj EXCEPT !.id = pk]}
    ELSE {r \in rows : ~(r.rel = obj.rel /\ r.id = obj.id)} \cup {obj}

\* `for obj in subobjects: obj.save()`
RECURSIVE save_all(_, _)
save_all(rows, subobjects) ==
    IF subobjects = <<>> THEN rows
    ELSE With(save_row(rows, Head(subobjects)), LAMBDA saved : save_all(saved, Tail(subobjects)))

\* `for obj in existing_objects: obj.delete()`
delete_all(rows, existing_objects) ==
    {r \in rows : \A e \in existing_objects : ~(r.rel = e.rel /\ r.id = e.id)}

\* the log entries of these writes
save_log(subobjects) ==
    [i \in 1..Len(subobjects) |-> [op |-> "save", rel |-> subobjects[i].rel, id |-> subobjects[i].id]]

\* existing_objects as the list the loop `for obj in existing_objects` walks
RECURSIVE deletions(_)
deletions(existing_objects) ==
    IF existing_objects = {} THEN <<>>
    ELSE LET e == CHOOSE x \in existing_objects : TRUE
         IN  <<e>> \o deletions(existing_objects \ {e})

delete_log(deleted) ==
    [i \in 1..Len(deleted) |-> [op |-> "delete", rel |-> deleted[i].rel, id |-> deleted[i].id]]

\* the first n elements of a list (all of it when it is shorter, none for n < 1)
first_n(list, n) == [i \in 1..(IF n > Len(list) THEN Len(list) ELSE IF n < 0 THEN 0 ELSE n) |-> list[i]]

\* The block commits whatever the statements in it did.
autocommit(before, attempt) == attempt

\* `with atomic():` around statements that took the database from `before` to
\* `attempt`: when one of them raised, the rows are as before the block (the
\* log keeps the statements that were executed).
atomic(before, attempt) ==
    IF attempt.error # "" THEN [attempt EXCEPT !.obj = before.obj, !.rows = before.rows]
    ELSE attempt

\* A persist step that saves the target record whatever the action.
persist_always(database, out, act, fail_at) ==
    [obj |-> out.dj, rows |-> database.rows,
     log |-> database.log \o <<[op |-> "save", rel |-> "self", id |-> 0]>>, error |-> ""]

\* The persist step of transfer_to_orm (lines 296-306), on the database
\* [obj, rows, log]: nothing without an action.  fail_at: which of the block's
\* save() and delete() calls raises a database error (0: none); error: the
\* exception that leaves the block.
persist(database, out, act, fail_at) ==
    IF act \notin {TransferAction.CREATE, TransferAction.SYNC, TransferAction.NO_SUBOBJECTS}
    THEN [obj |-> database.obj, rows |-> database.rows, log |-> database.log, error |-> ""]
    ELSE LET subs == IF act = TransferAction.NO_SUBOBJECTS THEN <<>> ELSE out.subobjects
             dels == IF act = TransferAction.SYNC THEN deletions(out.existing_objects) ELSE <<>>
             total == 1 + Len(subs) + Len(dels)
             done == IF fail_at = 0 \/ fail_at > total THEN total ELSE fail_at - 1
             saved == first_n(subs, done - 1)
             deleted == first_n(dels, done - 1 - Len(subs))
         IN  atomic(database,
                    [obj |-> IF done >= 1 THEN out.dj ELSE database.obj,
                     rows |-> delete_all(save_all(database.rows, saved),
                                         {deleted[i] : i \in DOMAIN deleted}),
                     log |-> database.log
                                \o (IF done >= 1 THEN <<[op |-> "save", rel |-> "self", id |-> 0]>>
                                    ELSE <<>>)
                                \o save_log(saved) \o delete_log(deleted),
                     error |-> IF done < total THEN "DatabaseError" ELSE ""])

\* transfer_to_orm(pydantic_obj, django_obj, action=, exclude_unset=, access=)
\* called from a synchronous context, or the call sync_to_async makes once the
\* coroutine returned to an asynchronous caller is awaited: the record as the
\* call leaves it, the database, and the exception raised.  call.fail_at, when
\* given, is the statement of the persist step at which the database fails.
transfer_to_orm(call, dj, database) ==
    LET opts == [action |-> call.action, exclude_unset |-> call.exclude_unset,
                 access |-> call.access]
    IN  With(transfer(call.pydantic_obj, Transfer(dj, {}, {}), database.rows, opts),
             LAMBDA out :
                IF out.error # ""
                THEN [django_obj |-> out.dj, db |-> database,
                      out |-> [error |-> out.error, written |-> out.written,
                               called |-> out.called]]
                ELSE With(persist(database, out, call.action,
                                  IF "fail_at" \in DOMAIN call THEN call.fail_at ELSE 0),
                          LAMBDA stored :
                            [django_obj |-> out.dj, db |-> stored,
                             out |-> [error |-> stored.error, written |-> out.written,
                                      called |-> out.called]]))

\* The call leaves the record, the database and the outcome as res says.
returns(result) ==
    \E res \in {result} :
    /\ django_obj' = res.django_obj
    /\ db_obj' = res.db.obj
    /\ db_rows' = res.db.rows
    /\ db_log' = res.db.log
    /\ tr_out' = res.out
    /\ tr_pc' = "returned"

\* the database as the call finds it
db == [obj |-> db_obj, rows |-> db_rows, log |-> db_log]

\* A call of transfer_to_orm.  With a running event loop (is_async, lines
\* 63-71) it returns the coroutine of sync_to_async(transfer_to_orm) and has
\* done nothing yet; else it does the transfer and returns.
TransferToOrm ==
    /\ tr_pc = "called"
    /\ tr_call.fn = "transfer_to_orm"
    /\ IF tr_call.is_async
       THEN /\ tr_pc' = "coroutine"
            /\ UNCHANGED <<django_obj, db_obj, db_rows, db_log, tr_out>>
       ELSE returns(transfer_to_orm(tr_call, django_obj, db))
    /\ UNCHANGED tr_call
    /\ UNCHANGED <<sub_vars, pub_vars, lib_vars>>

\* The caller awaits the coroutine: sync_to_async runs transfer_to_orm in a
\* worker thread, where no event loop is running.
Await ==
    /\ tr_pc = "coroutine"
    /\ returns(transfer_to_orm(tr_call, django_obj, db))
    /\ UNCHANGED tr_call
    /\ UNCHANGED <<sub_vars, pub_vars, lib_vars>>

ToNext == TransferToOrm \/ Await

\* ------------------------------------------------------------------------
\* Calls of transfer_to_orm on a Customer
\* ------------------------------------------------------------------------

\* The keyword arguments a field contributes to pydantic_cls(**provided): none,
\* or the field with one of the values.
Opt(key, values) == {<<>>} \cup {key :> v : v \in values}

AddressInputs ==
    {Construct("Address", city @@ zip) : city \in Opt("city", {"a"}), zip \in Opt("zip", {"b"})}

ContactInputs == {Construct("Contact", "phone" :> "b")}

ItemInputs == {Construct("Item", "qty" :> "n")}

CustomerInputs ==
    {Construct("Customer", name @@ pin @@ address @@ contact @@ meta @@ items) :
        name \in Opt("name", {"a"}),
        pin \in Opt("pin", {"s"}),
        address \in Opt("address", {NoneObj} \cup AddressInputs),
        contact \in Opt("contact", ContactInputs),
        meta \in Opt("meta", {"{}", "{k: v}"}),
        items \in Opt("items", {<<i>> : i \in ItemInputs})}

\* The audiences a token may hold.
AudOptions ==
    {{},
     {<<"crm", "customers", "update", "any">>},
     {<<"crm", "customers", "update", "own">>},
     {<<"crm", "customers", "update", "any">>, <<"crm", "customers", "update", "meta">>,
      <<"crm", "items", "update", "any">>}}

Accesses ==
    {NoAccess} \cup {[given |-> TRUE, aud |-> a, crt |-> c] : a \in AudOptions, c \in BOOLEAN}

\* The Customer record before the call, in memory as in the database.
CustomerRecord ==
    [id |-> 1, name |-> "old", pin |-> "old", city |-> "old", zip |-> "old",
     phone |-> "old", meta |-> "old"]

ToInit ==
    /\ SubIdle
    /\ PubIdle
    /\ LibIdle
    /\ tr_pc = "called"
    /\ tr_call \in [fn : {"transfer_to_orm"}, pydantic_obj : CustomerInputs,
                    action : TransferActions, exclude_unset : BOOLEAN,
                    access : Accesses, is_async : BOOLEAN]
    /\ django_obj = CustomerRecord
    /\ db_obj = CustomerRecord
    /\ db_rows = {Row("items", 1, 1, 0, "k", "old")}
    /\ db_log = <<>>
    /\ tr_out = <<>>

SpecTo == ToInit /\ [][ToNext]_vars

\* ------------------------------------------------------------------------
\* Claims about transfer_to_orm on a Customer
\* ------------------------------------------------------------------------

\* The fields of a schema model, and the attributes they map at every level.
fields_of(cls) == {Schemas[cls][i] : i \in 1..Len(Schemas[cls])}

RECURSIVE all_attrs(_)
all_attrs(cls) ==
    UNION {IF f.kind = "nested" THEN all_attrs(f.type)
           ELSE IF f.kind \in {"m2o", "m2m"} THEN {}
           ELSE {f.attr} : f \in fields_of(cls)}

\* The attributes mapped by the explicitly set fields of obj, at every nesting
\* level (a nested field set to None maps all attributes of its model).
RECURSIVE set_attrs(_)
set_attrs(obj) ==
    UNION {IF f.kind = "nested"
           THEN (IF obj.val[f.name] = NoneObj THEN all_attrs(f.type)
                 ELSE set_attrs(obj.val[f.name]))
           ELSE IF f.kind \in {"m2o", "m2m"} THEN {}
           ELSE {f.attr} : f \in {g \in fields_of(obj.cls) : g.name \in obj.set}}

\* C6: after a call with exclude_unset=True, only attributes mapped by explicitly
\* set fields (at every nesting level) were written, only setters of set
\* orm_method fields were called, and every other attribute of the record holds
\* its previous value.
C6_ExcludeUnsetWritesOnlySetFields ==
    (tr_pc = "returned" /\ tr_call.fn = "transfer_to_orm" /\ tr_call.exclude_unset
        /\ tr_call.pydantic_obj.cls = "Customer")
    => LET input == tr_call.pydantic_obj
       IN  /\ tr_out.written \subseteq set_attrs(input)
           /\ tr_out.called \subseteq
                {f.name : f \in {g \in fields_of(input.cls) : g.kind = "method" /\ g.name \in input.set}}
           /\ \A a \in all_attrs(input.cls) \ set_attrs(input) : django_obj[a] = CustomerRecord[a]

\* C20: a call on a Customer with action NO_SUBOBJECTS that the access check
\* lets pass returns, has saved the target record as the transfer left it (and
\* nothing else), and the related records are the ones before the call.
C20_NoSubobjectsSavesTargetOnly ==
    (tr_pc = "returned" /\ tr_call.fn = "transfer_to_orm"
        /\ tr_call.pydantic_obj.cls = "Customer"
        /\ tr_call.action = TransferAction.NO_SUBOBJECTS
        /\ tr_out.error \notin {"access_error.field", "access_error.field_is_critical"})
    => /\ tr_out.error = ""
       /\ db_obj = django_obj
       /\ db_log = <<[op |-> "save", rel |-> "self", id |-> 0]>>
       /\ db_rows = {Row("items", 1, 1, 0, "k", "old")}

\* C21: the step in which a call without an action returns leaves the
\* persisted target record, the persisted related records and the log of
\* database writes as they were; what it changes is the in-memory record,
\* and there only attributes the transfer has set.
C21_NoActionNoDatabaseWrite ==
    [][(tr_pc' = "returned" /\ tr_call.fn = "transfer_to_orm" /\ tr_call.action = None)
        => /\ db_obj' = db_obj
           /\ db_rows' = db_rows
           /\ db_log' = db_log
           /\ \A a \in DOMAIN django_obj :
                django_obj'[a] # django_obj[a] => a \in tr_out'.written]_vars

\* C21's case: a call without an action returned without error and has set
\* attributes of the in-memory record that the persisted record does not have.
C21_Witness ==
    /\ tr_pc = "returned"
    /\ tr_call.fn = "transfer_to_orm"
    /\ tr_call.action = None
    /\ tr_out.error = ""
    /\ tr_out.written # {}
    /\ django_obj # db_obj
    /\ db_log = <<>>

\* Whether some explicitly set field of obj, at any nesting level (nested models,
\* dict-valued fields and elements of list fields included), declares scopes of
\* which the token holds none.
RECURSIVE lacks_scope(_, _)
lacks_scope(obj, token) ==
    \E f \in {g \in fields_of(obj.cls) : g.name \in obj.set} :
        \/ f.scopes # <<>> /\ has_audience(token, f.scopes) = None
        \/ f.kind = "nested" /\ obj.val[f.name] # NoneObj /\ lacks_scope(obj.val[f.name], token)
        \/ f.kind \in {"m2o", "m2m"}
            /\ \E i \in 1..Len(obj.val[f.name]) : lacks_scope(obj.val[f.name][i], token)

\* Whether some explicitly set field of obj without scopes, at any nesting level,
\* is marked is_critical while the token has no crt.
RECURSIVE lacks_crt(_, _)
lacks_crt(obj, token) ==
    \E f \in {g \in fields_of(obj.cls) : g.name \in obj.set} :
        \/ f.scopes = <<>> /\ f.is_critical /\ ~token.crt
        \/ f.kind = "nested" /\ obj.val[f.name] # NoneObj /\ lacks_crt(obj.val[f.name], token)
        \/ f.kind \in {"m2o", "m2m"}
            /\ \E i \in 1..Len(obj.val[f.name]) : lacks_crt(obj.val[f.name][i], token)

\* C8: a call given an access raises AccessError, with the record and the
\* database untouched, if a set field at any nesting level declares scopes of
\* which the token holds none (code access_error.field) or is critical without
\* scopes while the token has no crt (code access_error.field_is_critical); it
\* raises neither unless a set field is such a field.
C8_AccessErrorBeforeAnyWrite ==
    (tr_pc = "returned" /\ tr_call.fn = "transfer_to_orm" /\ tr_call.access.given
        /\ tr_call.pydantic_obj.cls = "Customer")
    => LET input == tr_call.pydantic_obj
           token == tr_call.access
           codes == {"access_error.field", "access_error.field_is_critical"}
       IN  /\ (lacks_scope(input, token) \/ lacks_crt(input, token))
                => /\ tr_out.error \in codes
                   /\ django_obj = CustomerRecord
                   /\ db_log = <<>>
           /\ tr_out.error = "access_error.field" => lacks_scope(input, token)
           /\ tr_out.error = "access_error.field_is_critical" => lacks_crt(input, token)

\* ------------------------------------------------------------------------
\* Calls of transfer_to_orm on an Order: the list fields
\* ------------------------------------------------------------------------

\* The longest lists given, counted over the three list fields of an Order.
MaxList == 2

\* Sequences over S of length at most n.
SeqsUpTo(S, n) == UNION {[1..k -> S] : k \in 0..n}

\* Elements of `items` (matched by id; without id: a new record), of `parts`
\* (matched by key through sync_matching) and of `tags` (the id of the target).
ItemElements ==
    {Construct("Item", ("id" :> i) @@ ("qty" :> "n")) : i \in {1, 2}}
        \cup {Construct("Item", "qty" :> "n")}

PartElements == {Construct("Item", ("key" :> k) @@ ("qty" :> "n")) : k \in {"k1", "k2"}}

TagElements ==
    {Construct("TagRef", ("id" :> t) @@ ("qty" :> "n")) : t \in {1, 2}}
        \cup {Construct("TagRef", "qty" :> "n")}

OrderInputs ==
    {Construct("Order", ("items" :> items) @@ ("parts" :> parts) @@ ("tags" :> tags)) :
        <<items, parts, tags>> \in
            {t \in SeqsUpTo(ItemElements, MaxList) \X SeqsUpTo(PartElements, MaxList)
                    \X SeqsUpTo(TagElements, MaxList) :
                Len(t[1]) + Len(t[2]) + Len(t[3]) <= MaxList}}

\* The Order record before the call, and the related rows there may be: of this
\* order (two items, two parts with the same key, one tag) and of another one.
OrderRecord == [id |-> 1]

OrderRows ==
    {Row("items", 1, 1, 0, "k1", "old"), Row("items", 1, 2, 0, "k2", "old"),
     Row("parts", 1, 1, 0, "k1", "old"), Row("parts", 1, 2, 0, "k1", "old"),
     Row("tags", 1, 1, 1, None, "old")}

OtherRows == {Row("items", 2, 3, 0, "k1", "old")}

SyncInit ==
    /\ SubIdle
    /\ PubIdle
    /\ LibIdle
    /\ tr_pc = "called"
    /\ tr_call \in [fn : {"transfer_to_orm"}, pydantic_obj : OrderInputs,
                    action : TransferActions, exclude_unset : BOOLEAN,
                    access : {NoAccess}, is_async : BOOLEAN]
    /\ django_obj = OrderRecord
    /\ db_obj = OrderRecord
    /\ db_rows \in {OtherRows \cup rows : rows \in SUBSET OrderRows}
    /\ db_log = <<>>
    /\ tr_out = <<>>

SpecSync == SyncInit /\ [][ToNext]_vars

\* Whether a related row is the one an element of the list field f describes:
\* the row with the element's id, the row with its key under sync_matching,
\* the through row to its target.
describes(f, e, r) ==
    IF f.kind = "m2m" THEN r.target = e.val.id
    ELSE IF f.sync_matching /\ e.val.id = 0 THEN r.key = e.val.key
    ELSE e.val.id # 0 => r.id = e.val.id

\* No two elements of the list describe the same record.
distinct(f, value) ==
    \A i, j \in 1..Len(value) :
        (i # j /\ (f.kind = "m2m" \/ f.sync_matching \/ value[i].val.id # 0))
            => \E r \in {Row(f.attr, 1, n, m, k, "n") : n \in 1..3, m \in 1..2, k \in {"k1", "k2"}} :
                    describes(f, value[i], r) /\ ~describes(f, value[j], r)

\* C7: after a call with action SYNC has returned, for every list field and
\* every list value (of elements describing different records), the related
\* rows of the record are exactly the ones the list describes: as many rows as
\* elements, and for every element its row, holding the element's data.
C7_SyncMakesRelatedRecordsMatchList ==
    (tr_pc = "returned" /\ tr_call.fn = "transfer_to_orm" /\ tr_call.pydantic_obj.cls = "Order"
        /\ tr_call.action = TransferAction.SYNC /\ tr_out.error = "")
    => \A f \in fields_of("Order") :
        LET value == tr_call.pydantic_obj.val[f.name]
            after == related(db_rows, f.attr, django_obj.id)
        IN  distinct(f, value)
            => /\ Cardinality(after) = Len(value)
               /\ \A i \in 1..Len(value) :
                    \E r \in after : describes(f, value[i], r) /\ r.qty = value[i].val.qty

\* ------------------------------------------------------------------------
\* transfer_from_orm
\* ------------------------------------------------------------------------

\* AccessScope.from_str: scope.split('.') + [None], the first four parts
from_str(scope) ==
    LET scopes == scope \o <<None>>
    IN  [service |-> scopes[1], resource |-> scopes[2], action |-> scopes[3],
         selector |-> scopes[4]]

\* AccessScope.__str__: the parts that are not None, joined by dots
is_part_always(x) == TRUE

is_part(x) == x \notin {None, ""}

str(scope) ==
    SelectSeq(<<scope.service, scope.resource, scope.action, scope.selector>>, is_part)

\* The access of the current context (the ContextVar `access`): whether one is
\* set, and its token's audiences and tenant and its scope (<<>>: no scope).
NoContext == [given |-> FALSE, aud |-> {}, ten |-> None, scope |-> <<>>]

\* A check_access that does not compare tenants.
check_access_any_tenant(dj, access, selector) ==
    IF selector \in {None, ""} /\ access.scope = <<>> THEN "AttributeError"
    ELSE LET sel == IF selector \in {None, ""} THEN from_str(access.scope).selector
                    ELSE selector
         IN  IF sel \notin DOMAIN dj.checks THEN "AccessError"
             ELSE IF dj.checks[sel] = "deny" THEN "AccessError"
             ELSE ""

\* AccessMixin.check_access(access, selector=selector): "" when it returns, else
\* the exception it raises.
check_access(dj, access, selector) ==
    IF "tenant_id" \in DOMAIN dj /\ access.ten # dj.tenant_id THEN "AccessError"
    ELSE IF selector \in {None, ""} /\ access.scope = <<>> THEN "AttributeError"
    ELSE LET sel == IF selector \in {None, ""} THEN from_str(access.scope).selector
                    ELSE selector
         IN  IF sel \notin DOMAIN dj.checks THEN "AccessError"
             ELSE IF dj.checks[sel] = "deny" THEN "AccessError"
             ELSE ""

\* the scopes of a field with action read, as AccessScope and as strings
read_scopes_of(f) ==
    SelectSeq([i \in 1..Len(f.scopes) |-> from_str(f.scopes[i])], LAMBDA sc : sc.action = "read")

\* The loop `for scope in scopes` over the read scopes (lines 489-497).
RECURSIVE check_each(_, _, _, _)
check_each(dj, access, scopes, res) ==
    IF scopes = <<>> \/ res.error # "" THEN res
    ELSE With(check_access(dj, access, Head(scopes).selector),
              LAMBDA raised :
                check_each(dj, access, Tail(scopes),
                           IF raised = "AccessError" THEN [res EXCEPT !.value = None]
                           ELSE IF raised # "" THEN [res EXCEPT !.error = raised]
                           ELSE res))

\* A field's value is passed on whatever its scopes are.
filtered_never(f, value, dj, ctx) == [value |-> value, error |-> ""]

\* The scopes of a field applied to its value (lines 473-497): the value that
\* goes into the result, or the exception raised.
filtered(f, value, dj, ctx) ==
    LET read_scopes == [i \in 1..Len(read_scopes_of(f)) |-> str(read_scopes_of(f)[i])]
        res == [value |-> value, error |-> ""]
    IN  IF f.scopes = <<>> \/ ~ctx.given \/ read_scopes = <<>> THEN res
        ELSE IF has_audience(ctx, read_scopes) = None THEN [res EXCEPT !.value = None]
        ELSE IF "checks" \in DOMAIN dj THEN check_each(dj, ctx, read_scopes_of(f), res)
        ELSE res

\* json.loads of a string written by dumps
loads(text) == CHOOSE value \in {"{k: v}"} : dumps(value) = text

\* pydantic_cls.construct(**values)
construct(cls, values) == [cls |-> cls, set |-> DOMAIN values, val |-> values]

\* relatedmanager.filter(): the related rows in the order of their ids
RECURSIVE ordered(_)
ordered(rows) ==
    IF rows = {} THEN <<>>
    ELSE LET first == CHOOSE r \in rows : \A o \in rows : r.id <= o.id
         IN  <<first>> \o ordered(rows \ {first})

RECURSIVE transfer_from_orm(_, _, _, _, _)
RECURSIVE from_fields(_, _, _, _, _, _, _)
RECURSIVE from_list(_, _, _, _, _)

\* The list comprehension over related_objs (lines 415-422).
from_list(f, objs, done, rows, ctx) ==
    IF objs = <<>> \/ done.error # "" THEN done
    ELSE With(transfer_from_orm(f.type, Head(objs), rows, f.allow_none, ctx),
              LAMBDA sub :
                from_list(f, Tail(objs),
                          [value |-> done.value \o <<sub.obj>>, error |-> sub.error],
                          rows, ctx))

\* The loop over pydantic_cls.__fields__ from field i on, with the values
\* collected so far.  parent_allows_none: pydantic_field_on_parent is given and
\* allows None.
from_fields(cls, i, values, dj, rows, parent_allows_none, ctx) ==
    IF i > Len(Schemas[cls]) THEN [obj |-> construct(cls, values), error |-> ""]
    ELSE LET f == Schemas[cls][i]
             next(value) == from_fields(cls, i + 1, values @@ (f.name :> value), dj, rows,
                                        parent_allows_none, ctx)
         IN  CASE f.kind = "method" -> next(dj[f.attr])
               [] f.kind = "skipped" ->
                    from_fields(cls, i + 1, values, dj, rows, parent_allows_none, ctx)
               [] f.kind = "unmapped" -> [obj |-> NoneObj, error |-> "AttributeError"]
               [] f.kind \in {"m2o", "m2m"} ->
                    With(from_list(f, ordered(related(rows, f.attr, dj.id)),
                                   [value |-> <<>>, error |-> ""], rows, ctx),
                         LAMBDA got :
                            IF got.error # "" THEN [obj |-> NoneObj, error |-> got.error]
                            ELSE next(got.value))
               [] f.kind = "nested" ->
                    With(transfer_from_orm(f.type, dj, rows, f.allow_none, ctx),
                         LAMBDA sub :
                            IF sub.error # "" THEN sub ELSE next(sub.obj))
               [] OTHER ->
                    LET value == dj[f.attr]
                        parsed == IF f.kind = "json" /\ truthy(value) THEN loads(value) ELSE value
                    IN  IF f.required /\ parent_allows_none /\ value = None
                        THEN [obj |-> NoneObj, error |-> ""]
                        ELSE With(filtered(f, parsed, dj, ctx),
                                  LAMBDA got :
                                    IF got.error # "" THEN [obj |-> NoneObj, error |-> got.error]
                                    ELSE next(got.value))

\* transfer_from_orm(pydantic_cls, django_obj, pydantic_field_on_parent=...):
\* the instance returned (NoneObj for None), or the exception raised.
transfer_from_orm(cls, dj, rows, parent_allows_none, ctx) ==
    from_fields(cls, 1, <<>>, dj, rows, parent_allows_none, ctx)

\* A call of transfer_from_orm and its return.
TransferFromOrm ==
    /\ tr_pc = "called"
    /\ tr_call.fn = "transfer_from_orm"
    /\ \E res \in {transfer_from_orm(tr_call.pydantic_cls, django_obj, db_rows, FALSE,
                                     tr_call.access_ctx)} :
            tr_out' = [error |-> res.error, data |-> res.obj]
    /\ tr_pc' = "returned"
    /\ UNCHANGED <<tr_call, django_obj, db_obj, db_rows, db_log>>
    /\ UNCHANGED <<sub_vars, pub_vars, lib_vars>>

\* The audiences a token may hold, the contexts, and the Account records read.
ReadAudOptions ==
    SUBSET {<<"crm", "accounts", "read", "own">>, <<"crm", "accounts", "read", "any">>,
            <<"crm", "accounts", "read">>}

Contexts ==
    {NoContext} \cup
        [given : {TRUE}, aud : ReadAudOptions, ten : {"t1"},
         scope : {<<>>, <<"crm", "accounts", "read", "own">>}]

Selectors == {"own", "any"}

\* An Account record: with check_access (mixin) or without, tenant-bound or
\* not, and for each selector whether _check_access_<selector> is defined and
\* whether it lets the access pass.
AccountRecords ==
    {[id |-> 1, title |-> "T", email |-> email, note |-> "N", secret |-> "S",
      meta |-> dumps("{k: v}"), nick |-> nick, bio |-> "B"] @@ mixin @@ tenant :
        email \in {"e", None}, nick \in {"nk", None},
        mixin \in {<<>>} \cup {"checks" :> c :
                        c \in UNION {[d -> {"pass", "deny"}] : d \in SUBSET Selectors}},
        tenant \in {<<>>} \cup {"tenant_id" :> t : t \in Tenants}}

FromInit ==
    /\ SubIdle
    /\ PubIdle
    /\ LibIdle
    /\ tr_pc = "called"
    /\ tr_call \in [fn : {"transfer_from_orm"}, pydantic_cls : {"Account"},
                    access_ctx : Contexts]
    /\ django_obj \in AccountRecords
    /\ db_obj = django_obj
    /\ db_rows = {Row("items", 1, 1, 0, "k", "q")}
    /\ db_log = <<>>
    /\ tr_out = <<>>

FromNext == TransferFromOrm

SpecFrom == FromInit /\ [][FromNext]_vars

\* ------------------------------------------------------------------------
\* Claims about transfer_from_orm
\* ------------------------------------------------------------------------

\* The fields of a schema model that declare read scopes.
read_fields(cls) == {f \in fields_of(cls) : read_scopes_of(f) # <<>>}

\* The access holds one of the field's read scopes as audience and, when the
\* record defines check_access, the object-level check raises for the selector
\* of none of them.
permitted(f, dj, ctx) ==
    /\ \E i \in 1..Len(read_scopes_of(f)) : str(read_scopes_of(f)[i]) \in ctx.aud
    /\ "checks" \in DOMAIN dj
        => \A i \in 1..Len(read_scopes_of(f)) :
                check_access(dj, ctx, read_scopes_of(f)[i].selector) = ""

\* The value of a field in the instance returned (None in place of an instance: None).
value_in(obj, f) == IF obj = NoneObj THEN None ELSE obj.val[f.name]

\* C9 as stated: a field that declares read scopes has a non-None value in the
\* result only if an access is current that holds one of them and passes the
\* object-level check.
C9_ReadScopedValueOnlyIfPermitted ==
    (tr_pc = "returned" /\ tr_call.fn = "transfer_from_orm" /\ tr_out.error = "")
    => /\ \A f \in read_fields("Account") :
            value_in(tr_out.data, f) # None
                => tr_call.access_ctx.given /\ permitted(f, django_obj, tr_call.access_ctx)
       /\ \A f \in read_fields("Profile") :
            value_in(tr_out.data.val.profile, f) # None
                => tr_call.access_ctx.given /\ permitted(f, django_obj, tr_call.access_ctx)

\* C9 amended: with an access current, a single-valued field read through
\* orm_field that declares read scopes has a non-None value only if the access
\* holds one of them and the object-level check raises for none of their
\* selectors; with no access current such a field has the record's value, and a
\* field read through orm_method has the getter's value whatever its scopes.
C9_ReadScopedValueOnlyIfPermittedOrNoAccess ==
    (tr_pc = "returned" /\ tr_call.fn = "transfer_from_orm" /\ tr_out.error = "")
    => LET ctx == tr_call.access_ctx
           data == tr_out.data
           profile == tr_out.data.val.profile
       IN  /\ \A f \in {g \in read_fields("Account") : g.kind \in {"scalar", "json"}} :
                IF ctx.given
                THEN data.val[f.name] # None => permitted(f, django_obj, ctx)
                ELSE (django_obj[f.attr] = None) <=> (data.val[f.name] = None)
           /\ \A f \in {g \in read_fields("Profile") : g.kind \in {"scalar", "json"}} :
                IF ctx.given
                THEN value_in(profile, f) # None => permitted(f, django_obj, ctx)
                ELSE value_in(profile, f) = django_obj[f.attr]
           /\ \A f \in {g \in read_fields("Account") : g.kind = "method"} :
                data.val[f.name] = django_obj[f.attr]

\* C9's case: under an access that holds crm.accounts.read.any only, on a record
\* with check_access, the email is returned and the nick is withheld.
C9_Witness ==
    /\ tr_pc = "returned" /\ tr_call.fn = "transfer_from_orm" /\ tr_out.error = ""
    /\ tr_call.access_ctx.given
    /\ "checks" \in DOMAIN django_obj
    /\ tr_out.data.val.email # None
    /\ django_obj.nick # None
    /\ tr_out.data.val.profile # NoneObj
    /\ tr_out.data.val.profile.val.nick = None

\* ------------------------------------------------------------------------
\* update_orm
\* ------------------------------------------------------------------------

\* validate_model(cls, obj.dict()): whether validation finds no error, which it
\* does for a required field that is None.
RECURSIVE valid(_)
valid(obj) ==
    \A f \in fields_of(obj.cls) :
        CASE f.kind = "nested" -> obj.val[f.name] = NoneObj \/ valid(obj.val[f.name])
          [] f.kind \in {"m2o", "m2m"} -> \A i \in 1..Len(obj.val[f.name]) : valid(obj.val[f.name][i])
          [] OTHER -> f.required => obj.val[f.name] # None

\* update(model, input) of update_orm (lines 580-591) over the items fs of
\* input.dict(exclude_unset=True): the instance with the input's set fields
\* laid over it, or the exception raised.
RECURSIVE update(_, _, _)
update(res, input, fs) ==
    IF fs = <<>> \/ res.error # "" THEN res
    ELSE LET f == Head(fs)
             value == input.val[f.name]
             attr == res.obj.val[f.name]
             put(v) == [res EXCEPT !.obj.val[f.name] = v, !.obj.set = @ \cup {f.name}]
             done ==
                IF ~is_dict(f, value) THEN put(value)
                ELSE IF f.kind = "nested"
                THEN (IF attr = NoneObj
                      \* type_.parse_obj(value)
                      THEN (IF valid(Construct(f.type, [n \in value.set |-> value.val[n]]))
                            THEN put(Construct(f.type, [n \in value.set |-> value.val[n]]))
                            ELSE [res EXCEPT !.error = "ValidationError"])
                      ELSE With(update([obj |-> attr, error |-> ""], value, set_keys(value, 1)),
                                LAMBDA sub :
                                    [res EXCEPT !.obj.val[f.name] = sub.obj, !.error = sub.error]))
                \* a dict value of a dict-valued field: dict has no parse_obj, and
                \* setattr on a dict raises for the first item of the value
                ELSE IF attr = None \/ value # "{}"
                THEN [res EXCEPT !.error = "AttributeError"]
                ELSE res
         IN  With(done, LAMBDA next : update(next, input, Tail(fs)))

\* update_orm(model, orm_obj, input, access=access), run to its end on the event
\* loop: the record and the database as it leaves them, the instance returned
\* or the exception raised.  The coroutine that transfer_to_orm returns under a
\* running event loop (line 599) is dropped.
update_orm(call, dj, database) ==
    LET unchanged(e) == [django_obj |-> dj, db |-> database, out |-> [error |-> e, data |-> NoneObj]]
        denied == IF call.access.given THEN check_field_access(call.input, call.access) ELSE ""
        \* lines 595-600
        finish(data) ==
            IF ~valid(data) THEN unchanged("RequestValidationError")
            ELSE With(IF call.is_async THEN [django_obj |-> dj, db |-> database]
                      ELSE transfer_to_orm([pydantic_obj |-> data, action |-> None,
                                            exclude_unset |-> FALSE, access |-> NoAccess],
                                           dj, database),
                      LAMBDA sent :
                        [django_obj |-> sent.django_obj, db |-> sent.db,
                         out |-> [error |-> "", data |-> data]])
        \* lines 593
        merge(read) ==
            IF read.error # "" THEN unchanged(read.error)
            ELSE With(update(read, call.input, set_keys(call.input, 1)),
                      LAMBDA merged :
                        IF merged.error # "" THEN unchanged(merged.error) ELSE finish(merged.obj))
    IN  IF denied # "" THEN unchanged(denied)
        ELSE With(transfer_from_orm(call.model, dj, database.rows, FALSE, call.access_ctx), merge)

\* A call of update_orm, awaited by its caller.
UpdateOrm ==
    /\ tr_pc = "called"
    /\ tr_call.fn = "update_orm"
    /\ \E res \in {update_orm(tr_call, django_obj, db)} :
        /\ django_obj' = res.django_obj
        /\ db_obj' = res.db.obj
        /\ db_rows' = res.db.rows
        /\ db_log' = res.db.log
        /\ tr_out' = res.out
    /\ tr_pc' = "returned"
    /\ UNCHANGED tr_call
    /\ UNCHANGED <<sub_vars, pub_vars, lib_vars>>

\* The inputs of update_orm on an Account: any of title, email, note, meta and
\* profile set.
ProfileInputs ==
    {Construct("Profile", nick @@ bio) : nick \in Opt("nick", {"nk2"}), bio \in Opt("bio", {"B2"})}

AccountInputs ==
    {Construct("Account", title @@ email @@ note @@ meta @@ profile) :
        title \in Opt("title", {"T2", None}),
        email \in Opt("email", {"e2"}),
        note \in Opt("note", {"N2"}),
        meta \in Opt("meta", {"{}", "{k: v}"}),
        profile \in Opt("profile", ProfileInputs)}

UpdateAccesses ==
    {NoAccess,
     [given |-> TRUE, aud |-> {}, crt |-> FALSE],
     [given |-> TRUE, aud |-> {<<"crm", "accounts", "update", "any">>}, crt |-> FALSE]}

\* update_orm is a coroutine function: its body runs on a running event loop.
UpdateInit ==
    /\ SubIdle
    /\ PubIdle
    /\ LibIdle
    /\ tr_pc = "called"
    /\ tr_call \in [fn : {"update_orm"}, model : {"Account"}, input : AccountInputs,
                    access : UpdateAccesses,
                    access_ctx : {NoContext,
                                  [given |-> TRUE, aud |-> {<<"crm", "accounts", "read", "own">>},
                                   ten |-> "t1", scope |-> <<>>]},
                    is_async : {TRUE}]
    /\ django_obj \in {r \in AccountRecords : "tenant_id" \notin DOMAIN r /\ "checks" \notin DOMAIN r}
    /\ db_obj = django_obj
    /\ db_rows = {}
    /\ db_log = <<>>
    /\ tr_out = <<>>

UpdateNext == UpdateOrm

SpecUpdate == UpdateInit /\ [][UpdateNext]_vars

\* C10: after update_orm has returned, every attribute of orm_obj mapped by a set
\* field of input holds the input's value, the others hold what they held, and
\* the instance returned holds the input's value for every set field; after it
\* has raised RequestValidationError, orm_obj is unchanged.
C10_UpdateOrmAppliesSetFields ==
    (tr_pc = "returned" /\ tr_call.fn = "update_orm")
    => LET input == tr_call.input
           set_scalars == {f \in fields_of("Account") : f.kind = "scalar" /\ f.name \in input.set}
       IN  /\ tr_out.error = ""
                => /\ \A f \in set_scalars : django_obj[f.attr] = input.val[f.name]
                   /\ \A f \in set_scalars : tr_out.data.val[f.name] = input.val[f.name]
                   /\ \A a \in all_attrs("Account") \ set_attrs(input) : django_obj[a] = db_obj[a]
           /\ tr_out.error = "RequestValidationError" => django_obj = db_obj

\* ------------------------------------------------------------------------
\* JWTToken (olympus/security/jwt.py)
\* ------------------------------------------------------------------------

\* Access.scope of an access without scope (None).
NoScope == [service |-> None, resource |-> None, action |-> None, selector |-> None]

\* AccessToken.has_audiences(audiences): the given audiences the token holds,
\* in the order given.
has_audiences(token, audiences) == SelectSeq(audiences, LAMBDA a : a \in token.aud)

\* Access.scope is the last of the matching audiences.
scope_of_last(audiences) == from_str(audiences[Len(audiences)])

\* aud_scopes = [AccessScope.from_str(a) for a in audiences]; aud_scopes[0]
scope_of(audiences) == from_str(Head(audiences))

\* A raised exception: its status (0 when it is not an HTTPException) and code.
Raised(status, code) == [status |-> status, code |-> code, result |-> <<>>, is_set |-> FALSE]

\* JWTToken.__call__(request, scopes) for a JWTToken built with auto_error and
\* a request whose Authorization header is absent, undecodable, or a token with
\* the audiences aud.  scopes: whether SecurityScopes are passed, and their
\* list.  The outcome: the exception raised, or the value returned (<<>>: None)
\* and whether the context variable was set to it.
JWTToken(auto_error, header, scopes) ==
    IF header.kind = "absent"
    THEN (IF auto_error THEN Raised(403, "Not authenticated")
          ELSE [status |-> 0, code |-> "", result |-> <<>>, is_set |-> FALSE])
    ELSE IF header.kind = "undecodable" THEN Raised(0, "JWTError")
    ELSE LET token == [aud |-> header.aud]
             audiences == has_audiences(token, scopes.scopes)
         IN  IF scopes.given /\ audiences = <<>>
             THEN Raised(403, "required_audience_missing")
             ELSE [status |-> 0, code |-> "",
                   result |-> [token |-> token,
                               scope |-> IF scopes.given THEN scope_of(audiences) ELSE NoScope],
                   is_set |-> TRUE]

\* A request passes the JWTToken dependency.
JWTTokenCall ==
    /\ tr_pc = "called"
    /\ tr_call.fn = "JWTToken"
    /\ \E res \in {JWTToken(tr_call.auto_error, tr_call.header, tr_call.scopes)} :
        /\ tr_out' = [status |-> res.status, code |-> res.code, result |-> res.result]
        /\ access_ctx' = IF res.is_set THEN res.result ELSE access_ctx
    /\ tr_pc' = "returned"
    /\ UNCHANGED <<tr_call, django_obj, db_obj, db_rows, db_log, tokens, requested, endpoints>>
    /\ UNCHANGED <<sub_vars, pub_vars>>

\* The scope strings required and held.
JwtScopes ==
    {<<"crm", "accounts", "read", "own">>, <<"crm", "accounts", "read", "any">>,
     <<"crm", "accounts", "read">>}

JwtInit ==
    /\ SubIdle
    /\ PubIdle
    /\ LibIdle
    /\ tr_pc = "called"
    /\ tr_call \in [fn : {"JWTToken"}, auto_error : BOOLEAN,
                    header : [kind : {"absent", "undecodable"}, aud : {{}}]
                                \cup [kind : {"token"}, aud : SUBSET JwtScopes],
                    scopes : [given : {FALSE}, scopes : {<<>>}]
                                \cup [given : {TRUE}, scopes : SeqsUpTo(JwtScopes, MaxList)]]
    /\ django_obj = <<>> /\ db_obj = <<>> /\ db_rows = {} /\ db_log = <<>> /\ tr_out = <<>>

JwtNext == JWTTokenCall

SpecJwt == JwtInit /\ [][JwtNext]_vars

\* The first of the required scopes that the token holds (when it holds one).
first_held(call) ==
    call.scopes.scopes[CHOOSE i \in 1..Len(call.scopes.scopes) :
                            /\ call.scopes.scopes[i] \in call.header.aud
                            /\ \A j \in 1..(i - 1) : call.scopes.scopes[j] \notin call.header.aud]

\* the call was given a decodable token and a non-empty list of required scopes
with_required(call) ==
    call.fn = "JWTToken" /\ call.header.kind = "token" /\ call.scopes.given
        /\ call.scopes.scopes # <<>>

\* what C11 says of calls with a token and required scopes
scoped_call_ok ==
    (tr_pc = "returned" /\ with_required(tr_call))
    => IF \E i \in 1..Len(tr_call.scopes.scopes) : tr_call.scopes.scopes[i] \in tr_call.header.aud
       THEN /\ tr_out.code = ""
            /\ tr_out.result.token.aud = tr_call.header.aud
            /\ tr_out.result.scope = from_str(first_held(tr_call))
            /\ access_ctx = tr_out.result
       ELSE /\ tr_out.status = 403 /\ tr_out.code = "required_audience_missing"
            /\ access_ctx = <<>>

Segments == {"crm", "accounts", "own", ""}

\* Scope strings of three to five dot-separated segments.
ScopeStrings == UNION {[1..n -> Segments] : n \in 3..5}

\* AccessScope.from_str(scope), then str() of the result.
ParseScope ==
    /\ tr_pc = "called"
    /\ tr_call.fn = "from_str"
    /\ \E res \in {from_str(tr_call.scope)} :
        tr_out' = [scope |-> res, str |-> str(res)]
    /\ tr_pc' = "returned"
    /\ UNCHANGED <<tr_call, django_obj, db_obj, db_rows, db_log>>
    /\ UNCHANGED <<sub_vars, pub_vars, lib_vars>>

ScopeInit ==
    /\ SubIdle
    /\ PubIdle
    /\ LibIdle
    /\ tr_pc = "called"
    /\ tr_call \in [fn : {"from_str"}, scope : ScopeStrings]
    /\ django_obj = <<>> /\ db_obj = <<>> /\ db_rows = {} /\ db_log = <<>> /\ tr_out = <<>>

ScopeNext == ParseScope

SpecScope == ScopeInit /\ [][ScopeNext]_vars

\* the scope string parsed has three or four segments, none of them empty
well_formed(call) ==
    /\ call.fn = "from_str"
    /\ Len(call.scope) \in {3, 4}
    /\ \A i \in 1..Len(call.scope) : call.scope[i] # ""

\* C12: for a scope string of three or four non-empty segments,
\* str(AccessScope.from_str(s)) = s; three segments give selector None, four
\* give service, resource, action, selector in order.
C12_ScopeRoundTrip ==
    (tr_pc = "returned" /\ well_formed(tr_call))
    => /\ tr_out.str = tr_call.scope
       /\ tr_out.scope.service = tr_call.scope[1]
       /\ tr_out.scope.resource = tr_call.scope[2]
       /\ tr_out.scope.action = tr_call.scope[3]
       /\ tr_out.scope.selector = IF Len(tr_call.scope) = 3 THEN None ELSE tr_call.scope[4]

\* C12's case: a scope of three segments was parsed and printed.
C12_Witness ==
    /\ tr_pc = "returned" /\ well_formed(tr_call)
    /\ Len(tr_call.scope) = 3
    /\ tr_out.scope.selector = None
    /\ Len(tr_out.str) = 3

\* ------------------------------------------------------------------------
\* REST client (clients/rest/_base.py, olymp.py, with_consumer.py)
\* ------------------------------------------------------------------------

\* Longest endpoint path built.
MaxPath == 2

\* Endpoint(client, path).endpoint
endpoint(path) == "/" \o Join(path, "/")

\* Endpoint._extend_path(name) (__getattr__, __getitem__): a new Endpoint
_extend_path(self, name) == [path |-> self.path \o <<name>>]

\* The method each HTTP-method helper of Endpoint passes to Client.request.
method_of(helper) == IF helper = "head" THEN "get" ELSE helper

\* What the server may answer: 200 with a body, 401 with detail (error) type
\* ExpiredSignatureError or JWTError, 500 without JSON body.
Responses ==
    {[status |-> 200, type |-> ""], [status |-> 401, type |-> "ExpiredSignatureError"],
     [status |-> 401, type |-> "JWTError"], [status |-> 500, type |-> ""]}

\* requests.Response.ok
ok(response) == response.status < 400

\* The token the auth endpoint hands out with its n-th answer of the exchange.
IssuedTokens == <<"t1", "t2", "t3", "t4">>

\* requests.request(...): the request joins those sent, the server's next answer
\* is the response.  s: the client's token cache, the exchanges of this call so
\* far, the answers the server will give, the exception raised ("": none).
send(s, method, path, authorization) ==
    [s EXCEPT !.sent = Append(@, [method |-> upper(method), endpoint |-> path,
                                  authorization |-> authorization,
                                  response |-> Head(s.script)]),
              !.script = Tail(@)]

\* the response of the last request sent
last_response(s) == s.sent[Len(s.sent)].response

\* auth_transaction / auth_user / auth_consumer: post to the auth endpoint
\* without Authorization (auth=None) and cache data['token'].  The post raises
\* APIError from perform() when the answer is not ok.
auth_(s, kind) ==
    With(send(s, "post", "/access/auth/" \o kind, None), LAMBDA s1 :
        IF ~ok(last_response(s1)) THEN [s1 EXCEPT !.error = "APIError"]
        ELSE [s1 EXCEPT !.tokens = (kind :> IssuedTokens[Len(s1.sent)]) @@ @])

\* Request._get_headers of OlympClient / Style2019ConsumerClient: fetch a token
\* of the request's auth kind unless one is cached.
_get_headers(s, request) ==
    IF request.auth # None /\ request.auth \notin DOMAIN s.tokens
    THEN auth_(s, request.auth)
    ELSE s

\* Request.perform(): _perform_request(), then APIError unless the response is
\* ok or its status is one of other_ok_states
perform(s, request) ==
    With(_get_headers(s, request), LAMBDA s1 :
        IF s1.error # "" THEN s1
        ELSE With(send(s1, request.method, request.endpoint,
                       IF request.auth = None THEN None ELSE s1.tokens[request.auth]),
                  LAMBDA s2 :
                IF ~ok(last_response(s2))
                        /\ last_response(s2).status \notin request.other_ok_states
                THEN [s2 EXCEPT !.error = "APIError"]
                ELSE s2))

\* Request.get_response(): perform(), then _handle_response() of OlympClient /
\* Style2019ConsumerClient.  value: what is returned ("None", "response", "data").
get_response(s, request) ==
    With(perform(s, request), LAMBDA s1 :
        IF s1.error # "" THEN s1
        ELSE IF /\ last_response(s1).status = 401
                /\ last_response(s1).type = "ExpiredSignatureError"
        THEN (IF request.auth \notin DOMAIN s1.tokens
              THEN [s1 EXCEPT !.error = "KeyError"]
              ELSE perform([s1 EXCEPT !.tokens =
                                [k \in DOMAIN s1.tokens \ {request.auth} |-> s1.tokens[k]]],
                           request))
        ELSE IF request.return_plain_response THEN [s1 EXCEPT !.value = "response"]
        ELSE IF ~ok(last_response(s1))
                    /\ last_response(s1).status \notin request.other_ok_states
        THEN [s1 EXCEPT !.error = "APIError"]
        ELSE IF last_response(s1).status # 500 THEN [s1 EXCEPT !.value = "data"]
        ELSE s1)

\* Client.request(method, endpoint, ...) of a client whose server will answer
\* with `script`
request(method, path, kwargs, script) ==
    get_response([tokens |-> tokens, sent |-> <<>>, script |-> script, error |-> "",
                  value |-> None],
                 [method |-> method, endpoint |-> path, auth |-> kwargs.auth,
                  return_plain_response |-> kwargs.return_plain_response,
                  other_ok_states |-> kwargs.other_ok_states])

\* the requests of a sequence of exchanges
requests_of(sent) ==
    [i \in DOMAIN sent |-> [method |-> sent[i].method, endpoint |-> sent[i].endpoint,
                            authorization |-> sent[i].authorization]]

\* The names path segments are taken from.
Names == {"cart", "items"}

\* The HTTP-method helpers of Endpoint.
Helpers == {"get", "post", "head", "put", "patch", "delete"}

\* endpoint.<name> or endpoint[name] on an Endpoint created earlier.
Traverse ==
    /\ tr_pc = "idle"
    /\ \E i \in DOMAIN endpoints, name \in Names :
        /\ Len(endpoints[i].path) < MaxPath
        /\ Len(endpoints) <= MaxPath
        /\ endpoints' = Append(endpoints, _extend_path(endpoints[i], name))
    /\ UNCHANGED <<access_ctx, tokens, requested>>
    /\ UNCHANGED <<sub_vars, pub_vars, tr_vars>>

\* endpoint.get(**kwargs), .post, .head, .put, .patch or .delete on an Endpoint
\* created earlier, to its end (a value returned or an exception raised).
CallHelper ==
    /\ tr_pc = "idle"
    /\ \E i \in DOMAIN endpoints, helper \in Helpers,
          kwargs \in [auth : {"transaction", None}, return_plain_response : BOOLEAN,
                      other_ok_states : {{}, {401}}],
          script \in [1..4 -> Responses] :
        \E res \in {request(method_of(helper), endpoint(endpoints[i].path), kwargs, script)} :
            /\ tr_call' = [fn |-> helper, self |-> endpoints[i], auth |-> kwargs.auth,
                           other_ok_states |-> kwargs.other_ok_states]
            /\ tr_out' = [error |-> res.error, value |-> res.value, sent |-> res.sent,
                          was_cached |-> DOMAIN tokens]
            /\ tokens' = res.tokens
            /\ requested' = requested \o requests_of(res.sent)
    /\ tr_pc' = "returned"
    /\ UNCHANGED <<access_ctx, endpoints, django_obj, db_obj, db_rows, db_log>>
    /\ UNCHANGED <<sub_vars, pub_vars>>

\* A client with an empty or a filled token cache and its base endpoint.
ClientInit ==
    /\ SubIdle
    /\ PubIdle
    /\ access_ctx = <<>>
    /\ tokens \in {<<>>, "transaction" :> "t0"}
    /\ requested = <<>>
    /\ endpoints = <<[path |-> <<>>]>>
    /\ tr_pc = "idle"
    /\ tr_call = <<>>
    /\ django_obj = <<>> /\ db_obj = <<>> /\ db_rows = {} /\ db_log = <<>> /\ tr_out = <<>>

ClientNext == Traverse \/ CallHelper

SpecClient == ClientInit /\ [][ClientNext]_vars

\* the exchanges of the call with the endpoint called itself (not the auth endpoint)
own_exchanges ==
    {i \in DOMAIN tr_out.sent : tr_out.sent[i].endpoint = endpoint(tr_call.self.path)}

\* the first exchange of the call with the endpoint called
first_own == CHOOSE i \in own_exchanges : \A j \in own_exchanges : i <= j

\* the call's first request to the endpoint was answered 401 ExpiredSignatureError
expired ==
    /\ tr_pc = "returned" /\ tr_call.auth # None
    /\ own_exchanges # {}
    /\ tr_out.sent[first_own].response = [status |-> 401, type |-> "ExpiredSignatureError"]

\* C13: on a 401 whose error type is ExpiredSignatureError the client drops the
\* cached token of the request's auth kind, fetches a new token and (the fetch
\* answered ok) performs the request again with the new token as Authorization.
C13_ExpiredTokenIsRefetchedAndRequestRetried ==
    expired
    => /\ Len(tr_out.sent) > first_own
       /\ tr_out.sent[first_own + 1].endpoint = "/access/auth/" \o tr_call.auth
       /\ ok(tr_out.sent[first_own + 1].response)
            => /\ Len(tr_out.sent) > first_own + 1
               /\ tr_out.sent[first_own + 2].endpoint = endpoint(tr_call.self.path)
               /\ tr_out.sent[first_own + 2].method = tr_out.sent[first_own].method
               /\ tr_out.sent[first_own + 2].authorization = IssuedTokens[first_own + 1]
               /\ tr_out.sent[first_own + 2].authorization
                    # tr_out.sent[first_own].authorization

\* C14: each HTTP-method helper of Endpoint requests with the method of its own
\* name the endpoint '/' + segments joined by '/', and traversing a segment
\* appends a new Endpoint and leaves the paths of the existing ones as they were.
C14_HelperSendsOwnMethodToJoinedPath ==
    /\ tr_pc = "returned" =>
        /\ tr_call.self \in {endpoints[i] : i \in DOMAIN endpoints}
        /\ tr_call.auth = None => Len(tr_out.sent) = 1
        /\ \A i \in DOMAIN tr_out.sent :
            \/ tr_out.sent[i].endpoint = "/access/auth/transaction"
            \/ /\ tr_out.sent[i].method = upper(tr_call.fn)
               /\ tr_out.sent[i].endpoint = "/" \o Join(tr_call.self.path, "/")
    /\ endpoints[1].path = <<>>
    /\ \A i \in DOMAIN endpoints \ {1} :
        \E j \in 1..(i - 1), name \in Names : endpoints[i].path = endpoints[j].path \o <<name>>

\* ------------------------------------------------------------------------
\* Pagination (olympus/schemas/query.py, utils/fastapi.py)
\* ------------------------------------------------------------------------

\* Most records in the queried table; largest max_limit.
MaxRows == 3

\* A query parameter that was not sent (Query(None, ...)).
NotSent == -1

\* The records a manager or queryset may hold: id and a filterable column.
PageRows == {[id |-> i, grp |-> IF i % 2 = 1 THEN "a" ELSE "b"] : i \in 1..MaxRows}

\* objects.filter(q_filters), for Q() and Q(grp=...)
filter_(objects, q_filters) ==
    IF q_filters = "Q()" THEN objects ELSE {o \in objects : o.grp = q_filters}

\* queryset.order_by('id') / order_by('-id'): the records as a list
RECURSIVE order_by(_, _)
order_by(objects, key) ==
    IF objects = {} THEN <<>>
    ELSE LET first == CHOOSE o \in objects :
                        \A p \in objects : IF key = "-id" THEN p.id <= o.id ELSE o.id <= p.id
         IN  <<first>> \o order_by(objects \ {first}, key)

\* a slice up to and including index high
slice_through(list, low, high) ==
    [i \in 1..(IF high + 1 > Len(list) THEN Len(list) - low
               ELSE IF high + 1 > low THEN high + 1 - low ELSE 0) |-> list[low + i]]

\* queryset[low:high] with 0 <= low, 0 <= high: the elements of (0-based) index
\* low up to, not including, high
slice(list, low, high) ==
    LET stop == IF high > Len(list) THEN Len(list) ELSE high
    IN  [i \in 1..(IF stop > low THEN stop - low ELSE 0) |-> list[low + i]]

\* Pagination.query(objects, q_filters)
query(self, objects, q_filters) ==
    slice(order_by(filter_(objects, q_filters), self.order_by), self.offset, self.limit)

\* depends_limit_offset(max_limit)(limit, offset)
get_limit_offset(max_limit, limit, offset) ==
    LET offset_ == IF offset = NotSent THEN 0 ELSE offset
    IN  [limit |-> offset_ + (IF limit = NotSent THEN max_limit ELSE limit),
         offset |-> offset_]

\* Pagination(...).query(objects, q_filters) is evaluated.
PaginationQuery ==
    /\ tr_pc = "called"
    /\ tr_call.fn = "query"
    /\ tr_out' = [result |-> query(tr_call.self, tr_call.objects, tr_call.q_filters)]
    /\ tr_pc' = "returned"
    /\ UNCHANGED <<tr_call, django_obj, db_obj, db_rows, db_log>>
    /\ UNCHANGED <<sub_vars, pub_vars, lib_vars>>

\* A request resolves the dependency depends_limit_offset(max_limit) and the
\* records are selected by [offset:limit] of the LimitOffset it returns.
GetLimitOffset ==
    /\ tr_pc = "called"
    /\ tr_call.fn = "get_limit_offset"
    /\ \E res \in {get_limit_offset(tr_call.max_limit, tr_call.limit, tr_call.offset)} :
        tr_out' = [limit_offset |-> res,
                   result |-> slice(order_by(tr_call.objects, "id"), res.offset, res.limit)]
    /\ tr_pc' = "returned"
    /\ UNCHANGED <<tr_call, django_obj, db_obj, db_rows, db_log>>
    /\ UNCHANGED <<sub_vars, pub_vars, lib_vars>>

PageInit ==
    /\ SubIdle
    /\ PubIdle
    /\ LibIdle
    /\ tr_pc = "called"
    /\ \/ tr_call \in [fn : {"query"}, objects : SUBSET PageRows,
                       q_filters : {"Q()", "a", "b"},
                       self : [limit : 0..(MaxRows + 1), offset : 0..(MaxRows + 1),
                               order_by : {"id", "-id"}]]
       \/ /\ tr_call \in [fn : {"get_limit_offset"}, objects : SUBSET PageRows,
                          max_limit : 1..MaxRows, limit : {NotSent} \cup 1..MaxRows,
                          offset : {NotSent} \cup 0..(MaxRows + 1)]
          /\ tr_call.limit <= tr_call.max_limit
    /\ django_obj = <<>> /\ db_obj = <<>> /\ db_rows = {} /\ db_log = <<>> /\ tr_out = <<>>

PageNext == PaginationQuery \/ GetLimitOffset

SpecPage == PageInit /\ [][PageNext]_vars

\* list is in the order of key
in_order(list, key) ==
    \A i, j \in DOMAIN list :
        i < j => IF key = "-id" THEN list[i].id > list[j].id ELSE list[i].id < list[j].id

\* C15: Pagination.query returns records satisfying q_filters, ordered by
\* order_by, none of the first `offset` matching records, the records directly
\* after them, and at most `limit` records; the records selected by
\* [offset:limit] of depends_limit_offset's result are at most the requested
\* limit (max_limit when none was requested), whatever the offset.
C15_PageIsFilteredOrderedAndBounded ==
    /\ (tr_pc = "returned" /\ tr_call.fn = "query")
        => LET matching == {o \in tr_call.objects :
                                tr_call.q_filters = "Q()" \/ o.grp = tr_call.q_filters}
               result == tr_out.result
           IN  /\ \A i \in DOMAIN result : result[i] \in matching
               /\ in_order(result, tr_call.self.order_by)
               /\ \A i \in DOMAIN result :
                    Cardinality({m \in matching :
                                    IF tr_call.self.order_by = "-id" THEN m.id > result[i].id
                                    ELSE m.id < result[i].id}) = tr_call.self.offset + i - 1
               /\ Len(result) <= tr_call.self.limit
    /\ (tr_pc = "returned" /\ tr_call.fn = "get_limit_offset")
        => Len(tr_out.result) <= (IF tr_call.limit = NotSent THEN tr_call.max_limit
                                  ELSE tr_call.limit)

\* C15's case: a page that skips the first record and is cut short by the limit.
C15_Witness ==
    /\ tr_pc = "returned"
    /\ tr_call.fn = "query"
    /\ tr_call.self.offset = 1 /\ tr_call.self.limit = 2 /\ tr_call.q_filters = "Q()"
    /\ Cardinality(tr_call.objects) = 3 /\ Len(tr_out.result) = 1

\* ------------------------------------------------------------------------
\* Exception handlers (olympus/handlers/error.py)
\* ------------------------------------------------------------------------

\* schemas.Error(type=..., message=..., code=...)
Error(type_, message, code) == [type |-> type_, message |-> message, code |-> code]

\* respond_details(scope, content, status_code, headers): the JSONResponse, or
\* the AttributeError of sentry_sdk.last_event_id() when sentry_sdk is None.
respond_details(scope, content, status_code) ==
    IF ~scope.sentry_sdk THEN [raised |-> "AttributeError"]
    ELSE LET event_id == IF scope.last_event_id # None THEN scope.last_event_id
                         ELSE scope.sentry_event_id
         IN  IF event_id # None
             THEN [raised |-> "", status_code |-> status_code, detail |-> content,
                   event_id |-> event_id]
             ELSE [raised |-> "", status_code |-> status_code, detail |-> content]

\* http_exception_handler, object_does_not_exist_handler, integrity_error_handler,
\* jose_error_handler and generic_exception_handler, by name
exception_handler(name, scope, exc) ==
    CASE name = "http_exception_handler" ->
            respond_details(scope,
                IF exc.detail.is_str THEN Error(exc.class, exc.detail.message, None)
                ELSE IF exc.detail.type = None
                     THEN Error(exc.class, exc.detail.message, exc.detail.code)
                     ELSE Error(exc.detail.type, exc.detail.message, exc.detail.code),
                exc.status_code)
      [] name = "object_does_not_exist_handler" ->
            respond_details(scope, Error(exc.class, exc.str, None), 404)
      [] name = "integrity_error_handler" ->
            respond_details(scope,
                Error(exc.class, None,
                      IF exc.constraint_name = None THEN exc.pgcode
                      ELSE exc.pgcode \o ":" \o exc.constraint_name),
                420)
      [] name = "jose_error_handler" ->
            respond_details(scope, Error(exc.class, exc.str, None), 401)
      [] name = "generic_exception_handler" ->
            respond_details(scope, Error("InternalServerError", None, None), 500)

\* The exceptions each handler is registered for.
Exceptions ==
    [handler : {"http_exception_handler"}, class : {"HTTPException"}, status_code : {403, 404},
     detail : [is_str : {TRUE}, type : {None}, message : {"m"}, code : {None}]
                \cup [is_str : {FALSE}, type : {None, "JWTClaimsError"}, message : {"m"},
                      code : {"c"}]]
    \cup [handler : {"object_does_not_exist_handler"},
          class : {"ObjectDoesNotExist", "DoesNotExist"}, str : {"m"}]
    \cup [handler : {"integrity_error_handler"}, class : {"IntegrityError"},
          pgcode : {"unique_violation"}, constraint_name : {None, "uq"}]
    \cup [handler : {"jose_error_handler"},
          class : {"JOSEError", "JWTError", "ExpiredSignatureError"}, str : {"m"}]
    \cup [handler : {"generic_exception_handler"}, class : {"ValueError", "KeyError"},
          str : {"m"}]

\* The handler registered for the exception raised answers the request.
HandleException ==
    /\ tr_pc = "called"
    /\ tr_call.fn = "exception_handler"
    /\ tr_out' = exception_handler(tr_call.exc.handler, tr_call.request, tr_call.exc)
    /\ tr_pc' = "returned"
    /\ UNCHANGED <<tr_call, django_obj, db_obj, db_rows, db_log>>
    /\ UNCHANGED <<sub_vars, pub_vars, lib_vars>>

\* An exception reaches its handler: sentry_sdk was importable or not, it has a
\* last event id or None, and the request scope holds a sentry_event_id or none.
HandlerInit ==
    /\ SubIdle
    /\ PubIdle
    /\ LibIdle
    /\ tr_pc = "called"
    /\ tr_call \in [fn : {"exception_handler"}, exc : Exceptions,
                    request : [sentry_sdk : BOOLEAN, last_event_id : {None, "e1"},
                               sentry_event_id : {None, "e2"}]]
    /\ tr_call.request.sentry_sdk \/ tr_call.request.last_event_id = None
    /\ django_obj = <<>> /\ db_obj = <<>> /\ db_rows = {} /\ db_log = <<>> /\ tr_out = <<>>

HandlerNext == HandleException

SpecHandler == HandlerInit /\ [][HandlerNext]_vars

\* the status C17 fixes for the exception
status_of(exc) ==
    CASE exc.handler = "object_does_not_exist_handler" -> 404
      [] exc.handler = "integrity_error_handler" -> 420
      [] exc.handler = "jose_error_handler" -> 401
      [] exc.handler = "http_exception_handler" -> exc.status_code
      [] OTHER -> 500

\* C17: every exception handler answers with a JSON response whose 'detail' is
\* the encoded error and whose status is fixed (ObjectDoesNotExist 404,
\* IntegrityError 420, JOSEError 401, HTTPException its own status with a string
\* detail wrapped into an Error typed by the exception class, any other
\* exception 500 with type 'InternalServerError' and no message); 'event_id' is
\* in the response exactly if an error-tracking event id is available.
C17_HandlersAnswerJsonWithFixedStatus ==
    (tr_pc = "returned" /\ tr_call.fn = "exception_handler")
    => /\ tr_out.raised = ""
       /\ tr_out.status_code = status_of(tr_call.exc)
       /\ tr_call.exc.handler = "generic_exception_handler"
            => tr_out.detail.type = "InternalServerError" /\ tr_out.detail.message = None
       /\ (tr_call.exc.handler = "http_exception_handler" /\ tr_call.exc.detail.is_str)
            => /\ tr_out.detail.type = tr_call.exc.class
               /\ tr_out.detail.message = tr_call.exc.detail.message
       /\ tr_call.exc.handler \in {"object_does_not_exist_handler", "integrity_error_handler",
                                   "jose_error_handler"}
            => tr_out.detail.type = tr_call.exc.class
       /\ "event_id" \in DOMAIN tr_out
            <=> (tr_call.request.last_event_id # None \/ tr_call.request.sentry_event_id # None)

\* ------------------------------------------------------------------------
\* Fields without orm_field: calls of transfer_to_orm and transfer_from_orm on a Sheet
\* ------------------------------------------------------------------------

SheetInputs ==
    {Construct("Sheet", title @@ leaf @@ hint @@ stub) :
        title \in Opt("title", {"a"}),
        leaf \in Opt("leaf", {NoneObj} \cup
                    {Construct("Leaf", text @@ note @@ extra) :
                        text \in Opt("text", {"b"}), note \in Opt("hint", {"h"}),
                        extra \in Opt("extra", {Construct("Extra", "flag" :> "f")})}),
        hint \in Opt("hint", {"h"}),
        stub \in Opt("stub", {NoneObj} \cup
                    {Construct("Stub", label @@ orphan) :
                        label \in Opt("label", {"c"}), orphan \in Opt("orphan", {"o"})})}

\* The Sheet record before the call, in memory as in the database.
SheetRecord == [id |-> 1, title |-> "old", text |-> "old", flag |-> "old", label |-> "old"]

SheetInit ==
    /\ SubIdle
    /\ PubIdle
    /\ LibIdle
    /\ tr_pc = "called"
    /\ \/ tr_call \in [fn : {"transfer_to_orm"}, pydantic_obj : SheetInputs,
                       action : TransferActions, exclude_unset : BOOLEAN,
                       access : {NoAccess}, is_async : BOOLEAN]
       \/ tr_call \in [fn : {"transfer_from_orm"}, pydantic_cls : {"Sheet", "Leaf", "Stub"},
                       access_ctx : {NoContext}]
    /\ django_obj = SheetRecord
    /\ db_obj = SheetRecord
    /\ db_rows = {}
    /\ db_log = <<>>
    /\ tr_out = <<>>

SheetNext == TransferToOrm \/ Await \/ TransferFromOrm

SpecSheet == SheetInit /\ [][SheetNext]_vars

\* the call of transfer_to_orm does not skip the field `stub` of its Sheet
walks_stub(call) ==
    /\ call.fn = "transfer_to_orm"
    /\ ~(call.exclude_unset /\ "stub" \notin call.pydantic_obj.set)

\* C16: transfer_to_orm and transfer_from_orm raise AttributeError for a field
\* with neither orm_method nor orm_field that is no singleton nested schema
\* model (Stub.orphan); a field declared with orm_field=None (Sheet.hint,
\* Leaf.hint, Leaf.extra) is skipped: transfer_to_orm writes nothing for it (flag
\* is the one attribute reached only through such a field) and
\* transfer_from_orm has no value for it.
C16_UnmappedFieldRaisesNoneFieldSkipped ==
    tr_pc = "returned" =>
        IF tr_call.fn = "transfer_to_orm"
        THEN /\ walks_stub(tr_call) => tr_out.error = "AttributeError"
             /\ ~walks_stub(tr_call) => tr_out.error = ""
             /\ "flag" \notin tr_out.written
             /\ django_obj.flag = SheetRecord.flag
        ELSE /\ tr_call.pydantic_cls \in {"Sheet", "Stub"} => tr_out.error = "AttributeError"
             /\ tr_call.pydantic_cls = "Leaf"
                    => tr_out.error = "" /\ DOMAIN tr_out.data.val = {"text"}

\* ------------------------------------------------------------------------
\* Calls of transfer_to_orm on an Order whose database may fail
\* ------------------------------------------------------------------------

FailInit ==
    /\ SubIdle
    /\ PubIdle
    /\ LibIdle
    /\ tr_pc = "called"
    /\ tr_call \in [fn : {"transfer_to_orm"}, pydantic_obj : OrderInputs,
                    action : {TransferAction.CREATE, TransferAction.SYNC},
                    exclude_unset : {FALSE}, access : {NoAccess}, is_async : BOOLEAN,
                    fail_at : 0..(MaxList + 2)]
    /\ django_obj = OrderRecord
    /\ db_obj = OrderRecord
    /\ db_rows \in {OtherRows \cup rows : rows \in SUBSET OrderRows}
    /\ db_log = <<>>
    /\ tr_out = <<>>

SpecFail == FailInit /\ [][ToNext]_vars

\* the related records saved, by the log
saved_related(log) == {i \in 1..Len(log) : log[i].op = "save" /\ log[i].rel # "self"}

\* C18: a call with action CREATE or SYNC saves the target record first and
\* only once; when one of its saves or deletes fails, the persisted target
\* record and related records are the ones before the call; when none fails,
\* the target record is persisted as the call left it and one related record
\* was saved for every element of the input's lists.
C18_PersistIsAtomicTargetFirst ==
    [][(tr_pc' = "returned" /\ tr_call.action \in {TransferAction.CREATE, TransferAction.SYNC})
        => /\ db_log' # <<>> => db_log'[1] = [op |-> "save", rel |-> "self", id |-> 0]
           /\ \A i \in 2..Len(db_log') : db_log'[i].rel # "self"
           /\ tr_out'.error # "" => db_obj' = db_obj /\ db_rows' = db_rows
           /\ tr_out'.error = ""
                => /\ db_obj' = django_obj'
                   /\ Cardinality(saved_related(db_log'))
                        = Len(tr_call.pydantic_obj.val.items) + Len(tr_call.pydantic_obj.val.parts)
                            + Len(tr_call.pydantic_obj.val.tags)]_vars

\* C18's case: the database failed after the target record and a related record
\* were saved.
C18_Witness ==
    /\ tr_pc = "returned"
    /\ tr_call.action \in {TransferAction.CREATE, TransferAction.SYNC}
    /\ tr_out.error = "DatabaseError"
    /\ Len(db_log) >= 2
    /\ db_log[2].op = "save"

\* ------------------------------------------------------------------------
\* AccessMixin.check_access (olympus/models.py)
\* ------------------------------------------------------------------------

\* record.check_access(access, selector=...) is called and returns or raises.
CheckAccess ==
    /\ tr_pc = "called"
    /\ tr_call.fn = "check_access"
    /\ tr_out' = [error |-> check_access(django_obj, tr_call.access, tr_call.selector)]
    /\ tr_pc' = "returned"
    /\ UNCHANGED <<tr_call, django_obj, db_obj, db_rows, db_log>>
    /\ UNCHANGED <<sub_vars, pub_vars, lib_vars>>

\* A record with the mixin: tenant-bound or not, and for each selector whether
\* _check_access_<selector> is defined and whether it lets the access pass.  An
\* access of either tenant without scope or with a scope of four or of three
\* segments; the selector argument absent, empty or given.
AccessInit ==
    /\ SubIdle
    /\ PubIdle
    /\ LibIdle
    /\ tr_pc = "called"
    /\ tr_call \in [fn : {"check_access"},
                    access : [given : {TRUE}, aud : {{}}, ten : Tenants,
                              scope : {<<>>, <<"crm", "accounts", "read", "own">>,
                                       <<"crm", "accounts", "read">>}],
                    selector : {None, "", "own", "any"}]
    /\ django_obj \in {("id" :> 1) @@ ("checks" :> c) @@ tenant :
                        c \in UNION {[d -> {"pass", "deny"}] : d \in SUBSET {"own", "any"}},
                        tenant \in {<<>>} \cup {"tenant_id" :> t : t \in Tenants}}
    /\ db_obj = django_obj
    /\ db_rows = {}
    /\ db_log = <<>>
    /\ tr_out = <<>>

AccessNext == CheckAccess

SpecAccess == AccessInit /\ [][AccessNext]_vars

\* the call names a selector: explicitly, or by the scope of the access
has_selector(call) == call.selector \notin {None, ""} \/ call.access.scope # <<>>

\* the selector the call names
selector_of(call) ==
    IF call.selector \notin {None, ""} THEN call.selector
    ELSE IF Len(call.access.scope) = 4 THEN call.access.scope[4] ELSE None

\* the access is of another tenant than the (tenant-bound) record
tenant_mismatch(dj, call) == "tenant_id" \in DOMAIN dj /\ dj.tenant_id # call.access.ten

\* C22: check_access returns normally only if the access's tenant is the
\* record's (for a record with tenant_id) and the record defines
\* _check_access_<selector> for the selector (the explicit one, else the one of
\* access.scope) and that method does not raise; a tenant mismatch and a
\* selector the record has no method for result in AccessError.
C22_CheckAccessPassesOnlyForTenantAndSelector ==
    (tr_pc = "returned" /\ tr_call.fn = "check_access")
    => /\ tr_out.error = ""
            => /\ ~tenant_mismatch(django_obj, tr_call)
               /\ has_selector(tr_call)
               /\ selector_of(tr_call) \in DOMAIN django_obj.checks
               /\ django_obj.checks[selector_of(tr_call)] = "pass"
       /\ tenant_mismatch(django_obj, tr_call) => tr_out.error = "AccessError"
       /\ (has_selector(tr_call) /\ selector_of(tr_call) \notin DOMAIN django_obj.checks)
            => tr_out.error = "AccessError"

\* C22's case: an access of the record's tenant passed the check of the
\* selector taken from its scope.
C22_Witness ==
    /\ tr_pc = "returned" /\ tr_call.fn = "check_access"
    /\ "tenant_id" \in DOMAIN django_obj
    /\ django_obj.tenant_id = tr_call.access.ten
    /\ tr_call.selector = None
    /\ tr_call.access.scope # <<>>
    /\ tr_out.error = ""

====
